---------------------------- MODULE Spec2Model ----------------------------
(***************************************************************************)
(* A model of the CodeCraftVS repository scanner:                          *)
(*   - CacheManager (src/src/cacheManager.ts): a path -> status store with *)
(*     a time-to-live,                                                     *)
(*   - GitRepositoryScanner (src/src/gitScanner.ts): batched scans of a    *)
(*     directory, each subdirectory checked with external git processes.   *)
(*                                                                         *)
(* One action of the model is one turn of the JavaScript event loop: a     *)
(* call from the host, or the completion of one awaited operation (a       *)
(* process exit, a file read, a directory listing) together with every     *)
(* promise continuation that completion makes runnable.                    *)
(***************************************************************************)
EXTENDS Integers, Sequences, FiniteSets, TLC

(***************************************************************************)
(* Values                                                                  *)
(***************************************************************************)

\* JavaScript null (CacheManager.get's miss, getTrackingInfo's failure).
Null == [null |-> TRUE]

\* An optional field of an object literal that is left out.
Absent == <<>>

\* A JavaScript number is <<n>> for the integer n; NaN is the empty tuple.
Num(n) == <<n>>
NaN == <<>>

\* RepositoryStatus: trackingInfo and error are Absent or a string, and a
\* string built by a template literal is the tuple of its pieces.
Status(isGitRepo, commitsBehind, trackingInfo, error) ==
    [isGitRepo |-> isGitRepo, commitsBehind |-> commitsBehind,
     trackingInfo |-> trackingInfo, error |-> error]

NotAGitRepo == Status(FALSE, Num(0), Absent, Absent)
NoUpstream == Status(TRUE, Num(0), Absent, <<"No tracking branch configured">>)
ErrorStatus(msg) == Status(TRUE, Num(0), Absent, <<"Error: ">> \o msg)
\* The separator of trackingInfo, " \u2192 " in the source (a right arrow
\* between two spaces), written here in ASCII.
Arrow == " -> "
Tracked(behind, branch, upstream) ==
    Status(TRUE, behind, <<branch, Arrow, upstream>>, Absent)

\* path.join(folder, name): the absolute path of a subdirectory.
RepoPath(folder, name) == <<folder, name>>

(***************************************************************************)
(* Bounds                                                                  *)
(***************************************************************************)

\* The clock advances at most this many times in a behaviour.
MaxTicks == 3

\* The scanned folder has at most this many subdirectories (general model).
MaxDirs == 2

\* addToIgnore is called at most this many times.
MaxCalls == 3

(***************************************************************************)
(* State                                                                   *)
(***************************************************************************)
VARIABLES
    cache,      \* CacheManager.cache: a function path -> CacheEntry
    now,        \* Date.now(), in milliseconds
    ticks,      \* how often the clock has advanced (bounds the model)
    call,       \* the last call of the CacheManager API made by a client
    ret,        \* what that call returned
    lastSet,    \* path -> the time and status of its most recent set
    unsetSinceClear, \* the paths not set since the last clear
    maxConcurrent, \* GitRepositoryScanner.MAX_CONCURRENT
    entries,    \* the file system: folder -> what readDirectory lists
    craftignore, \* the file system: folder -> its .craftignore, if any
    repoKind,   \* the world: directory name -> how git answers in it
    scans,      \* the calls of scanDirectory / scanAndLogActiveRepos
    fully,      \* the call of RepositoryProvider.isVersionFullyIgnored
    workspaceFolders,  \* vscode.workspace.workspaceFolders: Absent or
                       \* <<the sequence of the workspace roots>>
    srcEntries, \* the directory listing of each root's SRC directory
    stats,      \* the call of getOverallStats
    adder       \* the call of CraftignoreManager.addToIgnore

clockVars == <<now, ticks>>
apiVars == <<call, ret, lastSet, unsetSinceClear>>
worldVars == <<maxConcurrent, entries, craftignore, repoKind>>
hostVars == <<fully, workspaceFolders, srcEntries, stats, adder>>
vars == <<cache, now, ticks, call, ret, lastSet, unsetSinceClear,
          maxConcurrent, entries,
          craftignore, repoKind, scans, fully,
          workspaceFolders, srcEntries, stats, adder>>

(***************************************************************************)
(* CacheManager                                                            *)
(***************************************************************************)

\* private readonly CACHE_TTL = 5 * 60 * 1000
CACHE_TTL == 5 * 60 * 1000

CacheEntry(status, timestamp) == [status |-> status, timestamp |-> timestamp]

\* Map.set(key, value)
MapSet(m, k, v) == [q \in DOMAIN m \cup {k} |-> IF q = k THEN v ELSE m[q]]

\* Map.delete(key)
MapDelete(m, k) == [q \in DOMAIN m \ {k} |-> m[q]]

\* new Map()
EmptyMap == [q \in {} |-> Null]

\* Seeded fault: the entry already counts as stale at the age of the TTL.
ExpiredFromTTL(entry, t) == t - entry.timestamp >= CACHE_TTL

\* The test of CacheManager.get that an entry is stale at time t.
Expired(entry, t) == t - entry.timestamp > CACHE_TTL

\* Seeded fault: set keeps the entry a path already has.
CacheSetIfAbsent(c, repoPath, status, t) ==
    IF repoPath \in DOMAIN c THEN c
    ELSE MapSet(c, repoPath, CacheEntry(status, t))

\* Seeded fault: set leaves an entry that has not expired as it is.
CacheSetUnlessFresh(c, repoPath, status, t) ==
    IF repoPath \in DOMAIN c /\ ~Expired(c[repoPath], t) THEN c
    ELSE MapSet(c, repoPath, CacheEntry(status, t))

\* Seeded fault: set stores the statuses of git repositories only.
CacheSetReposOnly(c, repoPath, status, t) ==
    IF status.isGitRepo THEN MapSet(c, repoPath, CacheEntry(status, t)) ELSE c

\* CacheManager.set: the store after set(repoPath, status) at time t.
CacheSet(c, repoPath, status, t) == MapSet(c, repoPath, CacheEntry(status, t))

\* CacheManager.get: the value returned by get(repoPath) at time t.
CacheGetValue(c, repoPath, t) ==
    IF repoPath \notin DOMAIN c THEN Null
    ELSE IF Expired(c[repoPath], t) THEN Null
    ELSE c[repoPath].status

\* Seeded fault: get reports a stale entry as a miss and leaves it stored.
CacheGetStoreKeepsStale(c, repoPath, t) == c

\* CacheManager.get: the store after get(repoPath) at time t.
CacheGetStore(c, repoPath, t) ==
    IF repoPath \in DOMAIN c /\ Expired(c[repoPath], t)
    THEN MapDelete(c, repoPath)
    ELSE c

\* Seeded fault: clear removes one entry only.
CacheClearOne(c) ==
    IF DOMAIN c = {} THEN c ELSE MapDelete(c, CHOOSE q \in DOMAIN c : TRUE)

\* CacheManager.clear: the store after clear().
CacheClear(c) == EmptyMap


(***************************************************************************)
(* Strings, as sequences of one-character strings                          *)
(***************************************************************************)

Whitespace == {" ", "\t", "\n", "\r"}

RECURSIVE TrimStart(_)
TrimStart(s) ==
    IF s # <<>> /\ Head(s) \in Whitespace THEN TrimStart(Tail(s)) ELSE s

RECURSIVE TrimEnd(_)
TrimEnd(s) ==
    IF s # <<>> /\ s[Len(s)] \in Whitespace
    THEN TrimEnd(SubSeq(s, 1, Len(s) - 1))
    ELSE s

\* String.prototype.trim
Trim(s) == TrimEnd(TrimStart(s))

Digits == <<"0", "1", "2", "3", "4", "5", "6", "7", "8", "9">>
IsDigit(c) == \E k \in 1..Len(Digits) : Digits[k] = c
DigitValue(c) == (CHOOSE k \in 1..Len(Digits) : Digits[k] = c) - 1

\* The value of the longest prefix of decimal digits of s, after acc.
RECURSIVE ParseDigits(_, _)
ParseDigits(s, acc) ==
    IF s # <<>> /\ IsDigit(Head(s))
    THEN ParseDigits(Tail(s), 10 * acc + DigitValue(Head(s)))
    ELSE acc

\* parseInt(s): leading whitespace skipped, an optional sign, then the
\* longest run of digits; NaN when there is no digit.
ParseInt(s) ==
    LET t == TrimStart(s)
        neg == t # <<>> /\ Head(t) = "-"
        u == IF t # <<>> /\ Head(t) \in {"-", "+"} THEN Tail(t) ELSE t
    IN  IF u = <<>> \/ ~IsDigit(Head(u)) THEN NaN
        ELSE Num(IF neg THEN 0 - ParseDigits(u, 0) ELSE ParseDigits(u, 0))

(***************************************************************************)
(* The external git processes                                              *)
(***************************************************************************)

GitDirCmd == "git rev-parse --git-dir"
FetchCmd == "git fetch"
BranchCmd == "git rev-parse --abbrev-ref HEAD"
UpstreamCmd == "git rev-parse --abbrev-ref @{upstream}"
RevListCmd == "git rev-list --count HEAD..@{upstream}"

\* What the promise of execAsync settles with: fulfilled with the stdout,
\* or rejected with an Error whose message names the command.
Fulfilled(stdout) == [ok |-> TRUE, stdout |-> stdout, message |-> <<>>]
Rejected(cmd) ==
    [ok |-> FALSE, stdout |-> <<>>, message |-> <<"Command failed: ", cmd>>]

BranchOut == <<"m", "a", "i", "n", "\n">>
UpstreamOut == <<"o", "/", "m", "\n">>
CountOut(d) == <<d, "\n">>

\* What git prints for a number: its decimal digits.
RECURSIVE Decimal(_)
Decimal(n) ==
    IF n < 10 THEN <<Digits[n + 1]>>
    ELSE Append(Decimal(n \div 10), Digits[(n % 10) + 1])

\* How many commits a repository of kind "any" may be behind its upstream.
Behinds == {0, 2, 12}

\* The kinds of directory the scanner meets.  Kind "any" leaves every
\* process free to succeed or fail; the other kinds fix the answers.
GitCmds == {GitDirCmd, FetchCmd, BranchCmd, UpstreamCmd, RevListCmd}

RepoKinds ==
    {"any", "plain", "tracked0", "tracked2", "tracked3", "noUpstream",
     "offline", "flaky"}

\* The outcomes a process running cmd in a directory of this kind may have.
GitOutcomes(kind, cmd) ==
    LET good == CASE cmd = GitDirCmd -> {Fulfilled(<<".", "g", "i", "t", "\n">>)}
                  [] cmd = FetchCmd -> {Fulfilled(<<>>)}
                  [] cmd = BranchCmd -> {Fulfilled(BranchOut)}
                  [] cmd = UpstreamCmd -> {Fulfilled(UpstreamOut)}
                  [] cmd = RevListCmd ->
                        {Fulfilled(Decimal(n) \o <<"\n">>) : n \in Behinds}
        bad == {Rejected(cmd)}
    IN  CASE kind = "any" -> good \cup bad
          [] kind = "plain" -> bad
          [] kind = "tracked0" ->
                IF cmd = RevListCmd THEN {Fulfilled(CountOut("0"))} ELSE good
          [] kind = "tracked2" ->
                IF cmd = RevListCmd THEN {Fulfilled(CountOut("2"))} ELSE good
          [] kind = "tracked3" ->
                IF cmd = RevListCmd THEN {Fulfilled(CountOut("3"))} ELSE good
          [] kind = "noUpstream" ->
                IF cmd \in {UpstreamCmd, RevListCmd} THEN bad ELSE good
          [] kind = "offline" ->
                IF cmd = FetchCmd THEN bad ELSE good
          [] kind = "flaky" ->
                IF cmd = FetchCmd THEN good \cup bad
                ELSE IF cmd = RevListCmd THEN {Fulfilled(CountOut("2"))}
                ELSE good

(***************************************************************************)
(* checkRepository, as the state of one member of a batch                  *)
(*                                                                         *)
(*   st      "hit"      the cache answered, no check was made              *)
(*           "quick"    quickGitCheck awaits git rev-parse --git-dir       *)
(*           "fetch"    checkRepository awaits git fetch                   *)
(*           "par"      checkRepository awaits Promise.all([               *)
(*                      getTrackingInfo, getCommitsBehind])                *)
(*           "settled"  checkRepository has returned status                *)
(*           "raised"   checkRepository has thrown                         *)
(*   branch, upstream   the two processes of getTrackingInfo:              *)
(*                      "none", "run", "ok" or "fail"                      *)
(*   tracking           getTrackingInfo: "none", "pending", "info", "null" *)
(*   behind             getCommitsBehind: "none", "fetch", "revlist",      *)
(*                      "done" (then behindCount is its value)             *)
(*   started            the commands the check has started (history)       *)
(*   exits              the processes that have exited, each as a pair of  *)
(*                      its step and "ok" or "fail" (history)              *)
(*   printed            what git rev-list printed, if it ran to success    *)
(*                      (history)                                          *)
(*   at                 when the status returned was written to the cache  *)
(*                      (history)                                          *)
(***************************************************************************)

NewMember(name) ==
    [name |-> name, st |-> "new", status |-> Null,
     branch |-> "none", upstream |-> "none",
     branchOut |-> <<>>, upstreamOut |-> <<>>, tracking |-> "none",
     behind |-> "none", behindCount |-> Num(0), started |-> {},
     exits |-> {}, printed |-> Absent, at |-> Absent]

\* The cache answered: return { name, uri, status: cachedStatus }.
HitMember(name, status) ==
    [NewMember(name) EXCEPT !.st = "hit", !.status = status]

\* checkRepository is called and runs to quickGitCheck's await.
StartCheck(name) ==
    [NewMember(name) EXCEPT !.st = "quick", !.started = {GitDirCmd}]

\* Seeded fault: the promise of checkRepository is never resolved.
ReturnNever(m, status) == [m EXCEPT !.status = status]

\* checkRepository returns status.
Return(m, status) == [m EXCEPT !.st = "settled", !.status = status]

\* Seeded fault: checkRepository without its catch clause.
Rethrow(m, o) == [m EXCEPT !.st = "raised"]

\* The catch clause of checkRepository.
CatchError(m, o) == Return(m, ErrorStatus(o.message))

\* Seeded fault: quickGitCheck takes every directory for a repository.
QuickGitCheckAlways(o) == TRUE

\* quickGitCheck: true when the process succeeded, false when it failed.
QuickGitCheck(o) == o.ok

\* checkRepository after quickGitCheck: not a repository, or git fetch.
AfterQuickCheck(m, o) ==
    IF ~QuickGitCheck(o)
    THEN Return(m, NotAGitRepo)
    ELSE [m EXCEPT !.st = "fetch", !.started = @ \cup {FetchCmd}]

\* checkRepository after git fetch: the catch clause on failure, else
\* getTrackingInfo starts its two processes and getCommitsBehind its fetch.
AfterFetch(m, o) ==
    IF ~o.ok
    THEN CatchError(m, o)
    ELSE [m EXCEPT !.st = "par", !.branch = "run", !.upstream = "run",
                   !.tracking = "pending", !.behind = "fetch",
                   !.started = @ \cup {BranchCmd, UpstreamCmd, FetchCmd}]

\* getTrackingInfo's Promise.all: null as soon as one process fails, the
\* two names once both have succeeded.
TrackingAfter(tracking, mine, other) ==
    IF tracking # "pending" THEN tracking
    ELSE IF ~mine.ok THEN "null"
    ELSE IF other = "ok" THEN "info"
    ELSE "pending"

AfterBranch(m, o) ==
    [m EXCEPT !.branch = IF o.ok THEN "ok" ELSE "fail",
              !.branchOut = o.stdout,
              !.tracking = TrackingAfter(@, o, m.upstream)]

AfterUpstream(m, o) ==
    [m EXCEPT !.upstream = IF o.ok THEN "ok" ELSE "fail",
              !.upstreamOut = o.stdout,
              !.tracking = TrackingAfter(@, o, m.branch)]

\* Seeded fault: getCommitsBehind answers -1 when its fetch fails.
AfterSecondFetchSentinel(m, o) ==
    IF ~o.ok
    THEN [m EXCEPT !.behind = "done", !.behindCount = Num(0 - 1)]
    ELSE [m EXCEPT !.behind = "revlist", !.started = @ \cup {RevListCmd}]

\* getCommitsBehind after its git fetch: 0 on failure, else git rev-list.
AfterSecondFetch(m, o) ==
    IF ~o.ok
    THEN [m EXCEPT !.behind = "done", !.behindCount = Num(0)]
    ELSE [m EXCEPT !.behind = "revlist", !.started = @ \cup {RevListCmd}]

\* parseInt(stdout.trim() || '0')
CountOf(stdout) ==
    LET t == Trim(stdout) IN ParseInt(IF t = <<>> THEN <<"0">> ELSE t)

\* Seeded fault: getCommitsBehind drops the count it read.
AfterRevListDropped(m, o) ==
    [m EXCEPT !.behind = "done", !.behindCount = Num(0)]

\* getCommitsBehind after git rev-list: 0 on failure, else the count.
AfterRevList(m, o) ==
    [m EXCEPT !.behind = "done",
              !.behindCount = IF o.ok THEN CountOf(o.stdout) ELSE Num(0)]

\* Seeded fault: the count is reported also without a tracking branch.
VerdictWithCount(m) ==
    IF m.tracking = "null"
    THEN Status(TRUE, m.behindCount, Absent,
                <<"No tracking branch configured">>)
    ELSE Tracked(m.behindCount, Trim(m.branchOut), Trim(m.upstreamOut))

\* The status checkRepository builds once both promises have fulfilled.
Verdict(m) ==
    IF m.tracking = "null"
    THEN NoUpstream
    ELSE Tracked(m.behindCount, Trim(m.branchOut), Trim(m.upstreamOut))

\* checkRepository's Promise.all([getTrackingInfo, getCommitsBehind]).
Join(m) ==
    IF m.st = "par" /\ m.tracking \in {"info", "null"} /\ m.behind = "done"
    THEN Return(m, Verdict(m))
    ELSE m

\* The processes of getTrackingInfo and getCommitsBehind still running.
ParProcs(m) ==
    (IF m.branch = "run" THEN {BranchCmd} ELSE {})
    \cup (IF m.upstream = "run" THEN {UpstreamCmd} ELSE {})
    \cup (IF m.behind = "fetch" THEN {FetchCmd} ELSE {})
    \cup (IF m.behind = "revlist" THEN {RevListCmd} ELSE {})

\* The processes a check that has not returned has in flight.
Running(m) ==
    CASE m.st = "quick" -> {GitDirCmd}
      [] m.st = "fetch" -> {FetchCmd}
      [] m.st = "par" -> ParProcs(m)
      [] OTHER -> {}

\* The step of the check that awaits the process cmd of member m.
StepOf(m, cmd) ==
    CASE m.st = "quick" -> "gitDir"
      [] m.st = "fetch" -> "fetch"
      [] m.st = "par" /\ cmd = BranchCmd -> "branch"
      [] m.st = "par" /\ cmd = UpstreamCmd -> "upstream"
      [] m.st = "par" /\ cmd = FetchCmd -> "fetch2"
      [] m.st = "par" /\ cmd = RevListCmd -> "revList"

Exited(m, cmd, o) ==
    [m EXCEPT !.exits =
                  @ \cup {<<StepOf(m, cmd), IF o.ok THEN "ok" ELSE "fail">>},
              !.printed = IF StepOf(m, cmd) = "revList" /\ o.ok
                          THEN <<o.stdout>> ELSE @]

\* The member after its process cmd has exited with outcome o.
CheckStep(m, cmd, o) ==
    LET step == StepOf(m, cmd)
        m1 == Exited(m, cmd, o)
    IN  CASE step = "gitDir" -> AfterQuickCheck(m1, o)
          [] step = "fetch" -> AfterFetch(m1, o)
          [] step = "branch" -> Join(AfterBranch(m1, o))
          [] step = "upstream" -> Join(AfterUpstream(m1, o))
          [] step = "fetch2" -> Join(AfterSecondFetch(m1, o))
          [] step = "revList" -> Join(AfterRevList(m1, o))

Unsettled(m) == m.st \in {"quick", "fetch", "par"}

(***************************************************************************)
(* The file system                                                         *)
(***************************************************************************)

Folders == {"V1"}

\* The names subdirectories are drawn from, in the order used for listings.
NameList ==
    << <<"a">>, <<"b">>, <<"c">>, <<"d">>, <<"e">>, <<"f">>, <<"g">>,
       <<"h">>, <<"i">>, <<"j">>, <<"k">>, <<"l">>, <<"m">>, <<"n">> >>
NameSet == {NameList[j] : j \in 1..Len(NameList)}

DirEntry(name) == [name |-> name, type |-> "Directory"]
FileEntry(name) == [name |-> name, type |-> "File"]

\* A folder with the first n names as subdirectories.
DirListing(n) == [j \in 1..n |-> DirEntry(NameList[j])]

Reverse(q) == [j \in 1..Len(q) |-> q[Len(q) + 1 - j]]

\* A .craftignore is <<content>>; no file is <<>>.
NoFile == <<>>
FileOf(content) == <<content>>

\* String.prototype.split('\n')
RECURSIVE SplitLines(_)
SplitLines(s) ==
    IF \A k \in 1..Len(s) : s[k] # "\n"
    THEN <<s>>
    ELSE LET k == CHOOSE k \in 1..Len(s) :
                    s[k] = "\n" /\ \A h \in 1..(k - 1) : s[h] # "\n"
         IN  <<SubSeq(s, 1, k - 1)>> \o SplitLines(SubSeq(s, k + 1, Len(s)))

\* Seeded fault: the lines are not trimmed.
MapKeep(lines) == lines

MapTrim(lines) == [j \in 1..Len(lines) |-> Trim(lines[j])]

KeptLine(line) == line # <<>> /\ Head(line) # "#"

\* content.split('\n').map(line => line.trim())
\*        .filter(line => line && !line.startsWith('#'))
IgnoredRepos(content) == SelectSeq(MapTrim(SplitLines(content)), KeptLine)

Includes(q, x) == \E j \in 1..Len(q) : q[j] = x

IsDirectory(e) == e.type = "Directory"
NameOf(q) == [j \in 1..Len(q) |-> q[j].name]

\* entries.filter(([_, type]) => type === FileType.Directory), names only
Directories(listing) == NameOf(SelectSeq(listing, IsDirectory))

\* Seeded fault: the ignore list is not applied.
ActiveReposAll(directories, ignoredRepos) == directories

\* directories.filter(name => !ignoredRepos.includes(name))
ActiveRepos(directories, ignoredRepos) ==
    LET Active(name) == ~Includes(ignoredRepos, name)
    IN  SelectSeq(directories, Active)

(***************************************************************************)
(* GitRepositoryScanner: scanDirectory and scanAndLogActiveRepos           *)
(*                                                                         *)
(* A scan is a record:                                                     *)
(*   pc      "idle", "readFile" (awaits fs.readFile), "readDir" (awaits    *)
(*           readDirectory), "batch" (awaits the Promise.all of a batch),  *)
(*           "done" (resolved with repositories), "failed" (rejected)      *)
(*   items   directories (scanDirectory) or activeRepos                    *)
(*   i       the loop variable                                             *)
(*   batch   the members of the batch awaited                              *)
(* and, as history,                                                       *)
(*   listed  readDirectory succeeded                                       *)
(*   raised  a check of the scan threw                                     *)
(*   reordered  a member settled while one before it in the batch had not  *)
(*   checks  the members behind repositories, position by position         *)
(*   expected  what a scan that looks every item up as the loop starts     *)
(*           returns, when every directory has a kind with fixed answers   *)
(*   envChanged, cleared, expired  since the loop started, a directory     *)
(*           changed its kind, the cache was cleared, an entry of the      *)
(*           cache passed the TTL                                          *)
(*   loopAt  when the loop started                                         *)
(*   fileRead  fs.readFile succeeded                                       *)
(*   wiped   the cache was cleared since the scan was called               *)
(***************************************************************************)

\* private MAX_CONCURRENT = 10
MAX_CONCURRENT == 10

ScanKinds == {"scanDirectory", "scanAndLogActiveRepos"}
Scans == {"s1", "s2"}

IdleScan ==
    [pc |-> "idle", kind |-> "scanDirectory", folder |-> "V1",
     ignoredRepos |-> <<>>, items |-> <<>>, i |-> 0, batch |-> <<>>,
     repositories |-> <<>>,
     listed |-> FALSE, raised |-> FALSE, reordered |-> FALSE,
     checks |-> <<>>, expected |-> <<>>,
     envChanged |-> FALSE, cleared |-> FALSE, expired |-> FALSE,
     loopAt |-> Absent, wiped |-> FALSE, fileRead |-> FALSE]

Repository(folder, name, status) ==
    [name |-> name, uri |-> RepoPath(folder, name), status |-> status]

Min(a, b) == IF a < b THEN a ELSE b

\* Seeded fault: the batch is not cut at the limit.
SliceToEnd(items, i, limit) == SubSeq(items, i + 1, Len(items))

\* Seeded fault: the slice takes one element more than the limit.
SliceInclusive(items, i, limit) ==
    SubSeq(items, i + 1, Min(i + limit + 1, Len(items)))

\* directories.slice(i, i + MAX_CONCURRENT), i counted from 0
Slice(items, i, limit) == SubSeq(items, i + 1, Min(i + limit, Len(items)))

\* batch.map(async ...) up to each callback's first await: the members look
\* up the cache one after the other; a miss starts a check.
RECURSIVE Lookups(_, _, _, _)
Lookups(folder, names, c, t) ==
    IF names = <<>>
    THEN [members |-> <<>>, cache |-> c]
    ELSE LET repoPath == RepoPath(folder, Head(names))
             cachedStatus == CacheGetValue(c, repoPath, t)
             m == IF cachedStatus # Null
                  THEN [HitMember(Head(names), cachedStatus)
                            EXCEPT !.at = <<c[repoPath].timestamp>>]
                  ELSE StartCheck(Head(names))
             rest == Lookups(folder, Tail(names),
                             CacheGetStore(c, repoPath, t), t)
         IN  [members |-> <<m>> \o rest.members, cache |-> rest.cache]

\* Seeded fault: the loop goes on when the first member has returned
\* (Promise.race in the place of Promise.all).
AnySettled(batch) ==
    \E j \in 1..Len(batch) : batch[j].st \in {"hit", "settled"}

\* Promise.all(batch.map(...)) resolves when every member has returned.
AllSettled(batch) ==
    \A j \in 1..Len(batch) : batch[j].st \in {"hit", "settled"}

\* Seeded fault: the results of a batch in the reverse of its order.
BatchResultsReversed(folder, batch) ==
    [j \in 1..Len(batch) |->
        Repository(folder, batch[Len(batch) + 1 - j].name,
                   batch[Len(batch) + 1 - j].status)]

\* What Promise.all resolves with: the members' results by position.
BatchResults(folder, batch) ==
    [j \in 1..Len(batch) |->
        Repository(folder, batch[j].name, batch[j].status)]

\* Seeded fault: the loop variable advances by one more than the limit.
CollectAndSkip(sc, limit) ==
    [sc EXCEPT !.repositories = @ \o BatchResults(sc.folder, sc.batch),
               !.checks = @ \o sc.batch,
               !.i = @ + limit + 1,
               !.batch = <<>>]

\* repositories.push(...batchResults) and the loop's i += MAX_CONCURRENT
Collect(sc, limit) ==
    [sc EXCEPT !.repositories = @ \o BatchResults(sc.folder, sc.batch),
               !.checks = @ \o sc.batch,
               !.i = @ + limit,
               !.batch = <<>>]

\* The for loop from its test to the next await or to the return.
RECURSIVE RunLoop(_, _, _, _)
RunLoop(sc, c, t, limit) ==
    IF ~(sc.i < Len(sc.items))
    THEN [scan |-> [sc EXCEPT !.pc = "done"], cache |-> c]
    ELSE LET l == Lookups(sc.folder, Slice(sc.items, sc.i, limit), c, t)
             sc1 == [sc EXCEPT !.pc = "batch", !.batch = l.members]
         IN  IF AllSettled(l.members)
             THEN RunLoop(Collect(sc1, limit), l.cache, t, limit)
             ELSE [scan |-> sc1, cache |-> l.cache]

\* The host calls scanDirectory(folder) or scanAndLogActiveRepos(.., folder).
Called(kind, folder) ==
    [IdleScan EXCEPT !.kind = kind, !.folder = folder,
                     !.pc = IF kind = "scanDirectory"
                            THEN "readDir" ELSE "readFile"]

StartScan(s, kind, folder) ==
    /\ scans[s].pc \in {"idle", "done", "failed"}
    /\ scans' = [scans EXCEPT ![s] = Called(kind, folder)]
    /\ UNCHANGED <<hostVars, cache, clockVars, apiVars, worldVars>>

\* RepositoryProvider.getRepositoriesInFolder, which getChildren calls when
\* a version folder of the tree is expanded: it scans with scanDirectory.
GetRepositoriesInFolder(s, versionUri) ==
    StartScan(s, "scanDirectory", versionUri)

\* fs.readFile(craftignorePath) settles: the ignore list, empty on failure.
ReadFileDone(s, ok) ==
    /\ scans[s].pc = "readFile"
    /\ ok => craftignore[scans[s].folder] # NoFile
    /\ scans' = [scans EXCEPT ![s].pc = "readDir",
                    ![s].fileRead = ok,
                    ![s].ignoredRepos =
                        IF ok
                        THEN IgnoredRepos(craftignore[scans[s].folder][1])
                        ELSE <<>>]
    /\ UNCHANGED <<hostVars, cache, clockVars, apiVars, worldVars>>

\* readDirectory rejects: scanDirectory catches and returns [], and
\* scanAndLogActiveRepos, which has no handler around it, rejects.
ListingFailed(sc) ==
    IF sc.kind = "scanDirectory"
    THEN [sc EXCEPT !.pc = "done", !.repositories = <<>>]
    ELSE [sc EXCEPT !.pc = "failed"]

\* The outcome of cmd in a directory whose kind fixes it.
TheOutcome(kind, cmd) == CHOOSE o \in GitOutcomes(kind, cmd) : TRUE

\* The status of a directory whose kind fixes every outcome, read off the
\* steps of the check one after the other (a reference for the
\* properties, not a model of the code).
FreshStatus(kind) ==
    IF ~TheOutcome(kind, GitDirCmd).ok THEN NotAGitRepo
    ELSE IF ~TheOutcome(kind, FetchCmd).ok
    THEN ErrorStatus(TheOutcome(kind, FetchCmd).message)
    ELSE IF ~TheOutcome(kind, BranchCmd).ok
            \/ ~TheOutcome(kind, UpstreamCmd).ok
    THEN NoUpstream
    ELSE Tracked(IF TheOutcome(kind, RevListCmd).ok
                 THEN CountOf(TheOutcome(kind, RevListCmd).stdout)
                 ELSE Num(0),
                 Trim(TheOutcome(kind, BranchCmd).stdout),
                 Trim(TheOutcome(kind, UpstreamCmd).stdout))

\* What a scan returns that looks every item up in the cache now and
\* checks the missing ones against the present kinds (history).
Expected(folder, items) ==
    [j \in 1..Len(items) |->
        LET cached == CacheGetValue(cache, RepoPath(folder, items[j]), now)
        IN  Repository(folder, items[j],
                IF cached # Null THEN cached
                ELSE IF repoKind[items[j]] = "any" THEN Null
                ELSE FreshStatus(repoKind[items[j]]))]

\* readDirectory settles; on success the loop runs to its first await.
ReadDirDone(s, ok) ==
    /\ scans[s].pc = "readDir"
    /\ IF ~ok
       THEN /\ scans' = [scans EXCEPT ![s] = ListingFailed(@)]
            /\ cache' = cache
       ELSE LET sc == scans[s]
                directories == Directories(entries[sc.folder])
                items == IF sc.kind = "scanDirectory"
                         THEN directories
                         ELSE ActiveRepos(directories, sc.ignoredRepos)
                r == RunLoop([sc EXCEPT !.items = items, !.listed = TRUE,
                                        !.loopAt = <<now>>,
                                        !.expected =
                                            Expected(sc.folder, items)],
                             cache, now, maxConcurrent)
            IN  /\ scans' = [scans EXCEPT ![s] = r.scan]
                /\ cache' = r.cache
    /\ UNCHANGED <<hostVars, clockVars, apiVars, worldVars>>

\* A check has thrown: the batch's Promise.all rejects.  scanDirectory
\* catches and returns []; scanAndLogActiveRepos rejects.  (No check of
\* the code throws: see CatchError.)
BatchRejected(sc) ==
    IF sc.kind = "scanDirectory"
    THEN [sc EXCEPT !.pc = "done", !.repositories = <<>>, !.raised = TRUE]
    ELSE [sc EXCEPT !.pc = "failed", !.raised = TRUE]

\* A member settles while one before it in the batch has not (history).
OutOfOrder(batch, k) == \E j \in 1..(k - 1) : Unsettled(batch[j])

\* A git process of member k of the batch exits with outcome o; when that
\* settles the check, the callback stores the status in the cache, and
\* when that settles the batch, the loop goes on.  A process of
\* getTrackingInfo that still runs when its check returns is awaited by
\* nothing: its exit changes no state of the program and is not modelled.
ProcExit(s, k, cmd, o) ==
    /\ scans[s].pc = "batch"
    /\ k \in 1..Len(scans[s].batch)
    /\ cmd \in Running(scans[s].batch[k])
    /\ o \in GitOutcomes(repoKind[scans[s].batch[k].name], cmd)
    /\ LET sc == scans[s]
           m0 == CheckStep(sc.batch[k], cmd, o)
           settled == m0.st = "settled"
           m == IF settled THEN [m0 EXCEPT !.at = <<now>>] ELSE m0
           c1 == IF settled
                 THEN CacheSet(cache, RepoPath(sc.folder, m.name),
                               m.status, now)
                 ELSE cache
           sc1 == [sc EXCEPT !.batch[k] = m,
                             !.reordered =
                                 @ \/ (settled /\ OutOfOrder(sc.batch, k))]
           r == IF m.st = "raised"
                THEN [scan |-> BatchRejected(sc1), cache |-> c1]
                ELSE IF AllSettled(sc1.batch)
                THEN RunLoop(Collect(sc1, maxConcurrent), c1, now,
                             maxConcurrent)
                ELSE [scan |-> sc1, cache |-> c1]
       IN  /\ scans' = [scans EXCEPT ![s] = r.scan]
           /\ cache' = r.cache
           /\ unsetSinceClear' =
                IF settled THEN unsetSinceClear \ {RepoPath(sc.folder, m.name)}
                ELSE unsetSinceClear
    /\ UNCHANGED <<hostVars, clockVars, call, ret, lastSet, worldVars>>

\* The record of a client's call of the CacheManager (history): its
\* operation, path and status argument, the time, whether the path held
\* an entry before the call and whether that entry was older than the TTL,
\* and whether the call directly follows a set of the same path at the
\* same time ("no", or "fresh" or "overwrite" by what that set found).
Call(op, path, status, at, had, stale, afterSet) ==
    [op |-> op, path |-> path, status |-> status, at |-> at, had |-> had,
     stale |-> stale, afterSet |-> afterSet]
NoCall == Call("none", <<>>, Null, 0, FALSE, FALSE, "no")

\* The paths the model watches for the history of clear.
WatchedPaths == {RepoPath(f, n) : f \in Folders, n \in NameSet}

\* The scans whose loop is running note an event (history).
NoteCleared(scs) ==
    [s \in Scans |->
        IF scs[s].pc = "batch"
        THEN [scs[s] EXCEPT !.cleared = TRUE, !.wiped = TRUE]
        ELSE IF scs[s].pc # "idle" THEN [scs[s] EXCEPT !.wiped = TRUE]
        ELSE scs[s]]
NoteExpired(scs) ==
    [s \in Scans |-> IF scs[s].pc = "batch"
                     THEN [scs[s] EXCEPT !.expired = TRUE] ELSE scs[s]]
NoteEnvChanged(scs) ==
    [s \in Scans |-> IF scs[s].pc = "batch"
                     THEN [scs[s] EXCEPT !.envChanged = TRUE] ELSE scs[s]]

\* GitRepositoryScanner.clearCache
ClearCache ==
    /\ cache' = CacheClear(cache)
    /\ call' = Call("clear", <<>>, Null, now, cache # EmptyMap, FALSE, "no")
    /\ ret' = Null
    /\ unsetSinceClear' = WatchedPaths
    /\ scans' = NoteCleared(scans)
    /\ UNCHANGED <<hostVars, clockVars, lastSet, worldVars>>

\* Time passes.
TickSteps == {1, CACHE_TTL}
Tick(d) ==
    /\ ticks < MaxTicks
    /\ now' = now + d
    /\ ticks' = ticks + 1
    /\ scans' = IF \E q \in DOMAIN cache :
                       ~Expired(cache[q], now) /\ Expired(cache[q], now + d)
                THEN NoteExpired(scans) ELSE scans
    /\ UNCHANGED <<hostVars, cache, apiVars, worldVars>>

\* The world changes: a directory becomes one of another kind.
RepoChange(name, kind) ==
    /\ repoKind[name] # kind
    /\ repoKind' = [repoKind EXCEPT ![name] = kind]
    /\ scans' = NoteEnvChanged(scans)
    /\ UNCHANGED <<hostVars, cache, clockVars, apiVars, maxConcurrent, entries,
                   craftignore>>

(***************************************************************************)
(* The general model: one scan at a time of a small folder, every git      *)
(* process free to succeed or fail.                                        *)
(***************************************************************************)

(***************************************************************************)
(* RepositoryProvider.isVersionFullyIgnored                                *)
(*                                                                         *)
(* The call is a record:                                                   *)
(*   pc      "idle", "readDir" (awaits readDirectory), "readFile" (awaits  *)
(*           fs.readFile), "done" (resolved with result)                   *)
(*   repos   the names of the directories listed                           *)
(* and, as history, dirRead and fileRead: the two reads succeeded.         *)
(***************************************************************************)
IdleFully ==
    [pc |-> "idle", folder |-> "V1", repos |-> <<>>, result |-> FALSE,
     dirRead |-> FALSE, fileRead |-> FALSE]

\* Seeded fault: the test for a version directory without subdirectories
\* is left out.
NoReposNever(repos) == FALSE

\* repos.length === 0
NoRepos(repos) == Len(repos) = 0

\* repos.every(([name]) => ignoredRepos.includes(name))
Every(repos, ignoredRepos) ==
    \A j \in 1..Len(repos) : Includes(ignoredRepos, repos[j])

\* The host calls isVersionFullyIgnored(versionUri).
IsVersionFullyIgnored(versionUri) ==
    /\ fully.pc \in {"idle", "done"}
    /\ fully' = [IdleFully EXCEPT !.pc = "readDir", !.folder = versionUri]
    /\ UNCHANGED <<cache, clockVars, apiVars, worldVars, scans,
                   workspaceFolders, srcEntries, stats, adder>>

\* readDirectory settles: false when it failed (the outer catch) or when
\* there is no directory; else the ignore file is read.
FullyDirDone(ok) ==
    /\ fully.pc = "readDir"
    /\ LET repos == Directories(entries[fully.folder])
       IN  fully' = IF ~ok
                    THEN [fully EXCEPT !.pc = "done", !.result = FALSE]
                    ELSE IF NoRepos(repos)
                    THEN [fully EXCEPT !.pc = "done", !.result = FALSE,
                                       !.dirRead = TRUE, !.repos = repos]
                    ELSE [fully EXCEPT !.pc = "readFile",
                                       !.dirRead = TRUE, !.repos = repos]
    /\ UNCHANGED <<cache, clockVars, apiVars, worldVars, scans,
                   workspaceFolders, srcEntries, stats, adder>>

\* fs.readFile settles: false when it failed, else whether every
\* directory is in the list.
FullyFileDone(ok) ==
    /\ fully.pc = "readFile"
    /\ ok => craftignore[fully.folder] # NoFile
    /\ fully' = IF ~ok
                THEN [fully EXCEPT !.pc = "done", !.result = FALSE]
                ELSE [fully EXCEPT
                         !.pc = "done", !.fileRead = TRUE,
                         !.result =
                             Every(fully.repos,
                                   IgnoredRepos(craftignore[fully.folder][1]))]
    /\ UNCHANGED <<cache, clockVars, apiVars, worldVars, scans,
                   workspaceFolders, srcEntries, stats, adder>>

(***************************************************************************)
(* GitRepositoryScanner.getOverallStats                                    *)
(*                                                                         *)
(* The call is a record:                                                   *)
(*   pc           "idle", "readSrc" (awaits readDirectory of a root's      *)
(*                SRC), "scan" (awaits scanAndLogActiveRepos, which runs   *)
(*                as scan "s1"), "done" (resolved with the two counts)     *)
(*   r            the index of the workspace root the loop is at           *)
(*   versionDirs  the names of the version directories of that root        *)
(*   v            the index of the version directory the loop is at        *)
(* and, as history, the roots whose SRC could not be listed (srcFailed),   *)
(* the version directories whose scan rejected (unlisted), those whose     *)
(* scan returned (scanned) and those whose ignore file could not be read   *)
(* (unread).                                                               *)
(***************************************************************************)
IdleStats ==
    [pc |-> "idle", r |-> 0, versionDirs |-> <<>>, v |-> 0,
     totalRepos |-> 0, reposBehind |-> 0,
     srcFailed |-> {}, unlisted |-> {}, unread |-> {}, scanned |-> {}]

\* String.prototype.toUpperCase, on the letters of a to z.
LowerCase ==
    <<"a", "b", "c", "d", "e", "f", "g", "h", "i", "j", "k", "l", "m",
      "n", "o", "p", "q", "r", "s", "t", "u", "v", "w", "x", "y", "z">>
UpperCase ==
    <<"A", "B", "C", "D", "E", "F", "G", "H", "I", "J", "K", "L", "M",
      "N", "O", "P", "Q", "R", "S", "T", "U", "V", "W", "X", "Y", "Z">>
ToUpperCaseChar(c) ==
    IF \E j \in 1..Len(LowerCase) : LowerCase[j] = c
    THEN UpperCase[CHOOSE j \in 1..Len(LowerCase) : LowerCase[j] = c]
    ELSE c
ToUpperCase(name) == [j \in 1..Len(name) |-> ToUpperCaseChar(name[j])]

\* type === vscode.FileType.Directory && name.toUpperCase() === name
IsVersionDir(e) == e.type = "Directory" /\ ToUpperCase(e.name) = e.name

\* path.join(srcPath.fsPath, versionName), srcPath being root/SRC
VersionUri(root, versionName) == <<root, "SRC", versionName>>

\* r.status.isGitRepo && !r.status.error
IsCounted(r) == r.status.isGitRepo /\ r.status.error = Absent

\* r.status.commitsBehind > 0 (false of NaN)
IsBehind(r) == r.status.commitsBehind # NaN /\ r.status.commitsBehind[1] > 0

\* The two counters after the loop over the repositories a scan returned.
Counted(st, repos) ==
    [st EXCEPT
        !.totalRepos =
            @ + Cardinality({j \in 1..Len(repos) : IsCounted(repos[j])}),
        !.reposBehind =
            @ + Cardinality({j \in 1..Len(repos) :
                                IsCounted(repos[j]) /\ IsBehind(repos[j])})]

\* The loop over the workspace folders arrives at root r: it awaits the
\* listing of its SRC, or returns after the last root.
AtRoot(st, r) ==
    IF r > Len(workspaceFolders[1])
    THEN [st EXCEPT !.pc = "done", !.r = r]
    ELSE [st EXCEPT !.pc = "readSrc", !.r = r, !.versionDirs = <<>>, !.v = 0]

\* The host calls getOverallStats().
GetOverallStats ==
    /\ stats.pc \in {"idle", "done"}
    /\ scans["s1"].pc \in {"idle", "done", "failed"}
    /\ stats' = IF workspaceFolders = Absent
                THEN [IdleStats EXCEPT !.pc = "done"]
                ELSE AtRoot(IdleStats, 1)
    /\ UNCHANGED <<cache, clockVars, apiVars, worldVars, scans, fully,
                   workspaceFolders, srcEntries, adder>>

\* readDirectory(srcPath) settles.  On failure the catch of this root's
\* iteration logs and the loop goes on to the next root; else the first
\* version directory is scanned.
StatsSrcDone(ok) ==
    /\ stats.pc = "readSrc"
    /\ LET root == workspaceFolders[1][stats.r]
           versionDirs == NameOf(SelectSeq(srcEntries[root], IsVersionDir))
       IN  IF ~ok
           THEN /\ stats' = AtRoot([stats EXCEPT !.srcFailed = @ \cup {root}],
                                   stats.r + 1)
                /\ scans' = scans
           ELSE IF versionDirs = <<>>
           THEN /\ stats' = AtRoot(stats, stats.r + 1)
                /\ scans' = scans
           ELSE /\ stats' = [stats EXCEPT !.pc = "scan", !.v = 1,
                                          !.versionDirs = versionDirs]
                /\ scans' = [scans EXCEPT !["s1"] =
                                Called("scanAndLogActiveRepos",
                                       VersionUri(root, versionDirs[1]))]
    /\ UNCHANGED <<cache, clockVars, apiVars, worldVars, fully,
                   workspaceFolders, srcEntries, adder>>

\* scanAndLogActiveRepos settles.  Resolved: its repositories are counted
\* and the loop goes on to the next version directory, or to the next
\* root.  Rejected: the catch of this root's iteration logs and the loop
\* goes on to the next root.
StatsScanReturned ==
    /\ stats.pc = "scan"
    /\ scans["s1"].pc \in {"done", "failed"}
    /\ LET sc == scans["s1"]
           root == workspaceFolders[1][stats.r]
           st1 == [Counted(stats, sc.repositories) EXCEPT
                      !.scanned = @ \cup {sc.folder},
                      !.unread = IF sc.fileRead THEN @ ELSE @ \cup {sc.folder}]
       IN  IF sc.pc = "failed"
           THEN /\ stats' = AtRoot([stats EXCEPT
                                       !.unlisted = @ \cup {sc.folder}],
                                   stats.r + 1)
                /\ scans' = scans
           ELSE IF stats.v < Len(stats.versionDirs)
           THEN /\ stats' = [st1 EXCEPT !.v = @ + 1]
                /\ scans' = [scans EXCEPT !["s1"] =
                                Called("scanAndLogActiveRepos",
                                       VersionUri(root,
                                           stats.versionDirs[stats.v + 1]))]
           ELSE /\ stats' = AtRoot(st1, stats.r + 1)
                /\ scans' = scans
    /\ UNCHANGED <<cache, clockVars, apiVars, worldVars, fully,
                   workspaceFolders, srcEntries, adder>>

(***************************************************************************)
(* CraftignoreManager.addToIgnore                                          *)
(*                                                                         *)
(* The call is a record:                                                   *)
(*   pc        "idle", "readFile" (awaits fs.readFile), "append" (awaits   *)
(*             the writeFile of the updated content), "create" (awaits     *)
(*             the writeFile of the handler of the inner try), "done"      *)
(*             (resolved with result)                                      *)
(*   folder, repoName   path.dirname and path.basename of repoUri          *)
(*   updatedContent     what "append" writes                               *)
(* and, as history: before, the file when the call was made; readFailed    *)
(* and writeFailed, that the read or the first write failed; calls, the    *)
(* number of calls made; lastAdded, the name this call added (it returned  *)
(* true), if it added one, and prevAdded, the same of the call before.     *)
(* A writeFile that fails leaves the file as it was.                       *)
(***************************************************************************)
IdleAdder ==
    [pc |-> "idle", folder |-> "V1", repoName |-> <<>>,
     updatedContent |-> <<>>, result |-> FALSE,
     before |-> NoFile, readFailed |-> FALSE, writeFailed |-> FALSE,
     calls |-> 0, prevAdded |-> Absent, lastAdded |-> Absent]

\* lines.some(line => line.trim() === repoName)
AlreadyIgnored(lines, repoName) ==
    \E j \in 1..Len(lines) : Trim(lines[j]) = repoName

\* currentContent.endsWith('\n') ? `${currentContent}${repoName}\n`
\*                                : `${currentContent}\n${repoName}\n`
UpdatedContent(currentContent, repoName) ==
    IF currentContent # <<>> /\ currentContent[Len(currentContent)] = "\n"
    THEN currentContent \o repoName \o <<"\n">>
    ELSE currentContent \o <<"\n">> \o repoName \o <<"\n">>

\* The call returns result.
Returned(a, result) ==
    [a EXCEPT !.pc = "done", !.result = result,
              !.lastAdded = IF result THEN <<a.repoName>> ELSE Absent]

\* The host calls addToIgnore(repoUri), repoUri being folder/repoName.
AddToIgnore(folder, repoName) ==
    /\ adder.pc \in {"idle", "done"}
    /\ adder.calls < MaxCalls
    /\ adder' = [IdleAdder EXCEPT !.pc = "readFile", !.folder = folder,
                                  !.repoName = repoName,
                                  !.before = craftignore[folder],
                                  !.calls = adder.calls + 1,
                                  !.prevAdded = adder.lastAdded]
    /\ UNCHANGED <<cache, clockVars, apiVars, worldVars, scans, fully,
                   workspaceFolders, srcEntries, stats>>

\* fs.readFile settles.  Read: the call returns false when a line is the
\* name, else it writes the updated content.  Failed, whatever the
\* reason: the handler of the inner try writes the file anew.
AddReadDone(ok) ==
    /\ adder.pc = "readFile"
    /\ ok => craftignore[adder.folder] # NoFile
    /\ adder' =
         IF ~ok
         THEN [adder EXCEPT !.pc = "create", !.readFailed = TRUE]
         ELSE LET currentContent == craftignore[adder.folder][1]
              IN  IF AlreadyIgnored(SplitLines(currentContent),
                                    adder.repoName)
                  THEN Returned(adder, FALSE)
                  ELSE [adder EXCEPT
                           !.pc = "append",
                           !.updatedContent =
                               UpdatedContent(currentContent, adder.repoName)]
    /\ UNCHANGED <<cache, clockVars, apiVars, worldVars, scans, fully,
                   workspaceFolders, srcEntries, stats>>

\* The writeFile of the updated content settles.  Failed: the handler of
\* the inner try, the same that handles a failed read, writes the file
\* anew.
AddAppendDone(ok) ==
    /\ adder.pc = "append"
    /\ IF ok
       THEN /\ craftignore' = [craftignore EXCEPT ![adder.folder] =
                                  FileOf(adder.updatedContent)]
            /\ adder' = Returned(adder, TRUE)
       ELSE /\ craftignore' = craftignore
            /\ adder' = [adder EXCEPT !.pc = "create", !.writeFailed = TRUE]
    /\ UNCHANGED <<cache, clockVars, apiVars, maxConcurrent, entries,
                   repoKind, scans, fully, workspaceFolders, srcEntries,
                   stats>>

\* The writeFile of `${repoName}\n` settles.  Failed: the outer handler
\* shows the error and the call returns false.
AddCreateDone(ok) ==
    /\ adder.pc = "create"
    /\ IF ok
       THEN /\ craftignore' = [craftignore EXCEPT ![adder.folder] =
                                  FileOf(adder.repoName \o <<"\n">>)]
            /\ adder' = Returned(adder, TRUE)
       ELSE /\ craftignore' = craftignore
            /\ adder' = Returned(adder, FALSE)
    /\ UNCHANGED <<cache, clockVars, apiVars, maxConcurrent, entries,
                   repoKind, scans, fully, workspaceFolders, srcEntries,
                   stats>>

\* An ignore file of four lines: " b " with a carriage return, the comment
\* "#a", an empty line, and "c" without a line break after it.  It names
\* the directories b and c.
IgnoreText == <<" ", "b", " ", "\r", "\n", "#", "a", "\n", "\n", "c">>
IgnoreNames == {<<"b">>, <<"c">>}

IgnoreFiles == {NoFile, FileOf(IgnoreText)}

Listings ==
    {<<FileEntry(<<".", "x">>)>> \o DirListing(n) : n \in {0, MaxDirs}}
    \cup {Reverse(DirListing(MaxDirs))}

InitProgram ==
    /\ cache = EmptyMap
    /\ now = 0
    /\ ticks = 0
    /\ call = NoCall
    /\ ret = Null
    /\ lastSet = EmptyMap
    /\ unsetSinceClear = {}
    /\ scans = [s \in Scans |-> IdleScan]
    /\ fully = IdleFully
    /\ stats = IdleStats
    /\ adder = IdleAdder

\* No workspace is open.
InitCommon ==
    /\ InitProgram
    /\ workspaceFolders = Absent
    /\ srcEntries = EmptyMap

Init ==
    /\ InitCommon
    /\ maxConcurrent = MAX_CONCURRENT
    /\ entries \in [Folders -> Listings]
    /\ craftignore \in [Folders -> IgnoreFiles]
    /\ repoKind = [n \in NameSet |-> IF n = NameList[1] THEN "any" ELSE "plain"]

Next ==
    \/ \E f \in Folders : GetRepositoriesInFolder("s1", f)
    \/ \E f \in Folders : StartScan("s1", "scanAndLogActiveRepos", f)
    \/ \E ok \in BOOLEAN : ReadFileDone("s1", ok)
    \/ \E ok \in BOOLEAN : ReadDirDone("s1", ok)
    \/ \E k \in 1..MAX_CONCURRENT, cmd \in GitCmds :
          \E o \in GitOutcomes("any", cmd) : ProcExit("s1", k, cmd, o)
    \/ ClearCache

Spec == Init /\ [][Next]_vars

(***************************************************************************)
(* The CacheManager on its own: a client calls set, get and clear while    *)
(* time passes.                                                            *)
(***************************************************************************)

CachePaths == {RepoPath("V1", NameList[1]), RepoPath("V1", NameList[2])}
SampleStatuses ==
    {NotAGitRepo, Tracked(Num(2), Trim(BranchOut), Trim(UpstreamOut))}

Age(path, t) == t - lastSet[path].at

\* cacheManager.set(repoPath, status)
ApiSet(repoPath, status) ==
    /\ cache' = CacheSet(cache, repoPath, status, now)
    /\ call' = Call("set", repoPath, status, now, repoPath \in DOMAIN cache,
                    FALSE, "no")
    /\ ret' = Null
    /\ lastSet' = MapSet(lastSet, repoPath, [at |-> now, status |-> status])
    /\ unsetSinceClear' = unsetSinceClear \ {repoPath}
    /\ UNCHANGED <<hostVars, clockVars, worldVars, scans>>

\* cacheManager.get(repoPath)
ApiGet(repoPath) ==
    /\ cache' = CacheGetStore(cache, repoPath, now)
    /\ ret' = CacheGetValue(cache, repoPath, now)
    /\ call' = Call("get", repoPath, Null, now, repoPath \in DOMAIN cache,
                    repoPath \in DOMAIN cache
                        /\ Age(repoPath, now) > CACHE_TTL,
                    IF call.op = "set" /\ call.path = repoPath /\ call.at = now
                    THEN (IF call.had THEN "overwrite" ELSE "fresh")
                    ELSE "no")
    /\ UNCHANGED <<hostVars, clockVars, lastSet, unsetSinceClear, worldVars, scans>>

\* cacheManager.clear()
ApiClear ==
    /\ cache' = CacheClear(cache)
    /\ call' = Call("clear", <<>>, Null, now, cache # EmptyMap, FALSE, "no")
    /\ ret' = Null
    /\ unsetSinceClear' = WatchedPaths
    /\ scans' = NoteCleared(scans)
    /\ UNCHANGED <<hostVars, clockVars, lastSet, worldVars>>

InitCache ==
    /\ InitCommon
    /\ maxConcurrent = MAX_CONCURRENT
    /\ entries = [f \in Folders |-> DirListing(2)]
    /\ craftignore = [f \in Folders |-> NoFile]
    /\ repoKind = [n \in NameSet |-> "any"]

NextCache ==
    \/ \E p \in CachePaths, st \in SampleStatuses : ApiSet(p, st)
    \/ \E p \in CachePaths : ApiGet(p)
    \/ ApiClear
    \/ ClearCache
    \/ \E d \in TickSteps : Tick(d)

SpecCache == InitCache /\ [][NextCache]_vars

(***************************************************************************)
(* Properties of the CacheManager (under SpecCache)                        *)
(***************************************************************************)

\* Path q has the same entry, or none, in the stores c and d.
SameEntry(c, d, q) ==
    /\ q \in DOMAIN c <=> q \in DOMAIN d
    /\ q \in DOMAIN c => c[q] = d[q]

\* What get(p) returns when an entry lives while Alive(age of its set).
GetReturns(p, Alive(_)) ==
    ApiGet(p) =>
        ret' = IF p \in DOMAIN cache /\ Alive(Age(p, now))
               THEN lastSet[p].status
               ELSE Null

\* C1 (as stated): get(P) returns the status of the most recent set(P) when
\* P has an entry and less than 5 minutes have passed since that set, and
\* returns absent in every other case, an age of exactly 5 minutes included.
C1_AbsentFromTTL ==
    [][\A p \in CachePaths :
          LET Alive(age) == age < CACHE_TTL IN GetReturns(p, Alive)]_vars

\* C1 (amended): get(P) returns the status of the most recent set(P) when P
\* has an entry and at most 5 minutes have passed since that set (an age
\* of exactly 5 minutes still returns it), and absent in every other case;
\* only the time since set counts, not the gets in between.
C1_AbsentAfterTTL ==
    [][\A p \in CachePaths :
          LET Alive(age) == age <= CACHE_TTL IN GetReturns(p, Alive)]_vars

\* C1 witness: a get of an entry aged exactly the TTL returned its status.
C1_Witness ==
    /\ call.op = "get" /\ call.had
    /\ call.at - lastSet[call.path].at = CACHE_TTL
    /\ ret = lastSet[call.path].status

\* C2: set(P,S) followed at once by get(P) returns S whatever P held
\* before, and set(P,S) leaves the entry of every other path as it was.
C2_SetThenGet ==
    [][\A p \in CachePaths :
          /\ (ApiGet(p) /\ call.op = "set" /\ call.path = p /\ call.at = now)
                => ret' = call.status
          /\ \A st \in SampleStatuses :
                ApiSet(p, st) =>
                    \A q \in WatchedPaths \ {p} : SameEntry(cache, cache', q)]_vars

\* C2 witness: a get right after a set that replaced an entry holding
\* another status returned the new status, with another path stored.
C2_Witness ==
    /\ call.op = "get" /\ call.afterSet = "overwrite"
    /\ ret = lastSet[call.path].status
    /\ \E q \in DOMAIN cache :
          q # call.path /\ cache[q].status # ret

\* C3: a get(P) of an entry older than the TTL returns absent and removes
\* P's entry and no other; P then has no entry (a get of it returns absent
\* and changes nothing) until a set(P) stores one.
C3_LazyEviction ==
    [][\A p \in CachePaths :
          /\ (ApiGet(p) /\ p \in DOMAIN cache /\ Age(p, now) > CACHE_TTL)
                => /\ ret' = Null
                   /\ p \notin DOMAIN cache'
                   /\ \A q \in WatchedPaths \ {p} : SameEntry(cache, cache', q)
          /\ (ApiGet(p) /\ p \notin DOMAIN cache)
                => ret' = Null /\ cache' = cache
          /\ (p \notin DOMAIN cache /\ p \in DOMAIN cache')
                => \E st \in SampleStatuses : ApiSet(p, st)]_vars

\* C3 witness: a get found its entry older than the TTL, returned absent
\* and removed it, while another path's entry, itself older than the TTL,
\* is still stored.
C3_Witness ==
    /\ call.op = "get" /\ call.stale /\ ret = Null
    /\ call.path \notin DOMAIN cache
    /\ \E q \in DOMAIN cache : Age(q, now) > CACHE_TTL

\* C4: after clear() or clearCache() no path has an entry until it is set
\* again, and a get of such a path returns absent, whatever the age of the
\* entries that were stored.
C4_ClearEmpties ==
    /\ \A p \in unsetSinceClear : p \notin DOMAIN cache
    /\ (call.op = "get" /\ call.path \in unsetSinceClear) => ret = Null

\* C4 witness: a path set at this very instant was cleared and a get of it
\* returned absent.
C4_Witness ==
    /\ call.op = "get" /\ call.path \in unsetSinceClear /\ ret = Null
    /\ call.path \in DOMAIN lastSet
    /\ lastSet[call.path].at = now


(***************************************************************************)
(* Scans of a wide directory: more subdirectories than a batch holds, the  *)
(* first a tracked repository and the others no repositories.              *)
(***************************************************************************)
WideDirs == 11

InitBatch ==
    /\ InitCommon
    /\ maxConcurrent = MAX_CONCURRENT
    /\ craftignore = [f \in Folders |-> NoFile]
    /\ entries = [f \in Folders |-> DirListing(WideDirs)]
    /\ repoKind = [n \in NameSet |->
                      IF n = NameList[1] THEN "tracked2" ELSE "plain"]

NextBatch ==
    \/ \E kind \in ScanKinds, f \in Folders : StartScan("s1", kind, f)
    \/ \E ok \in BOOLEAN : ReadFileDone("s1", ok)
    \/ \E ok \in BOOLEAN : ReadDirDone("s1", ok)
    \/ \E k \in 1..WideDirs, cmd \in GitCmds :
          \E o \in GitOutcomes("any", cmd) : ProcExit("s1", k, cmd, o)

SpecBatch == InitBatch /\ [][NextBatch]_vars

(***************************************************************************)
(* Scans under every batch width: the limit is 1, the number of            *)
(* subdirectories or MAX_CONCURRENT, every directory answers in one fixed  *)
(* way, time passes and the last directory changes between or during       *)
(* scans.                                                                  *)
(***************************************************************************)
Widths == {1, MaxDirs, MAX_CONCURRENT}

InitWidth ==
    /\ InitCommon
    /\ maxConcurrent \in Widths
    /\ craftignore = [f \in Folders |-> NoFile]
    /\ entries = [f \in Folders |-> DirListing(MaxDirs)]
    /\ repoKind = [n \in NameSet |-> "plain"]

NextWidth ==
    \/ \E f \in Folders : StartScan("s1", "scanDirectory", f)
    \/ \E ok \in BOOLEAN : ReadDirDone("s1", ok)
    \/ \E k \in 1..MaxDirs, cmd \in GitCmds :
          \E o \in GitOutcomes("any", cmd) : ProcExit("s1", k, cmd, o)
    \/ \E d \in TickSteps : Tick(d)
    \/ RepoChange(NameList[MaxDirs], "offline")

SpecWidth == InitWidth /\ [][NextWidth]_vars

(***************************************************************************)
(* A scan and the scan after it: s1 scans, and s2 scans after s1 has       *)
(* returned; between the two scans time passes and the                     *)
(* cache may be cleared.  The first directory is a tracked repository, one *)
(* without upstream or one whose fetch fails, the others no repositories.  *)
(***************************************************************************)
InitRescan ==
    /\ InitCommon
    /\ maxConcurrent = MAX_CONCURRENT
    /\ craftignore = [f \in Folders |-> NoFile]
    /\ entries = [f \in Folders |-> DirListing(MaxDirs)]
    /\ \E kind \in {"tracked2", "noUpstream", "offline"} :
           repoKind = [n \in NameSet |->
                          IF n = NameList[1] THEN kind ELSE "plain"]

\* The first scan has returned and the second has not been called.
BetweenScans ==
    /\ scans["s1"].pc = "done"
    /\ scans["s2"].pc = "idle"

NextRescan ==
    \/ /\ scans["s1"].pc = "idle"
       /\ \E kind \in ScanKinds, f \in Folders : StartScan("s1", kind, f)
    \/ /\ BetweenScans
       /\ \E kind \in ScanKinds, f \in Folders : StartScan("s2", kind, f)
    \/ \E s \in Scans, ok \in BOOLEAN : ReadFileDone(s, ok)
    \/ \E s \in Scans, ok \in BOOLEAN : ReadDirDone(s, ok)
    \/ \E s \in Scans, k \in 1..MaxDirs, cmd \in GitCmds :
          \E o \in GitOutcomes("any", cmd) : ProcExit(s, k, cmd, o)
    \/ BetweenScans /\ ClearCache
    \/ BetweenScans /\ \E d \in TickSteps : Tick(d)

SpecRescan == InitRescan /\ [][NextRescan]_vars

(***************************************************************************)
(* isVersionFullyIgnored beside the ignore-aware scan of the same version  *)
(* directory.  No directory is a git repository; the directory holds none, *)
(* one or MaxDirs subdirectories and the ignore file is absent, lists b    *)
(* and c, or lists a and b.                                                *)
(***************************************************************************)
AllText == <<"a", "\n", "b", "\n">>
AllNames == {<<"a">>, <<"b">>}

IgnoreListings == Listings \cup {<<DirEntry(<<"b">>)>>}

InitIgnore ==
    /\ InitCommon
    /\ maxConcurrent = MAX_CONCURRENT
    /\ entries \in [Folders -> IgnoreListings]
    /\ craftignore \in [Folders -> IgnoreFiles \cup {FileOf(AllText)}]
    /\ repoKind = [n \in NameSet |-> "plain"]

NextIgnore ==
    \/ \E f \in Folders : IsVersionFullyIgnored(f)
    \/ \E ok \in BOOLEAN : FullyDirDone(ok)
    \/ \E ok \in BOOLEAN : FullyFileDone(ok)
    \/ /\ scans["s1"].pc = "idle"
       /\ \E f \in Folders : StartScan("s1", "scanAndLogActiveRepos", f)
    \/ \E ok \in BOOLEAN : ReadFileDone("s1", ok)
    \/ \E ok \in BOOLEAN : ReadDirDone("s1", ok)
    \/ \E k \in 1..MaxDirs, cmd \in GitCmds :
          \E o \in GitOutcomes("any", cmd) : ProcExit("s1", k, cmd, o)

SpecIgnore == InitIgnore /\ [][NextIgnore]_vars

(***************************************************************************)
(* getOverallStats over a workspace of no, one or two roots, in either     *)
(* order.  SRC of w1 holds the directories V1, v2 and V4 and the file V3;  *)
(* SRC of w2 holds the directory V1.  w1/V1 holds a repository level with  *)
(* its upstream, one 3 commits behind, a plain directory and a repository  *)
(* whose fetch fails; w1/V4 and w2/V1 hold e, which their ignore files     *)
(* list, and g.                                                            *)
(***************************************************************************)
StatsRoots == <<"w1", "w2">>

StatsSrc ==
    [root \in {"w1", "w2"} |->
        IF root = "w1"
        THEN <<DirEntry(<<"V", "1">>), DirEntry(<<"v", "2">>),
               FileEntry(<<"V", "3">>), DirEntry(<<"V", "4">>)>>
        ELSE <<DirEntry(<<"V", "1">>)>>]

StatsUris ==
    UNION {{VersionUri(root, StatsSrc[root][j].name) :
               j \in 1..Len(StatsSrc[root])} : root \in {"w1", "w2"}}

StatsEntries ==
    [uri \in StatsUris |->
        IF uri = VersionUri("w1", <<"V", "1">>) THEN DirListing(4)
        ELSE IF uri = VersionUri("w1", <<"V", "4">>)
        THEN <<DirEntry(<<"e">>), DirEntry(<<"g">>)>>
        ELSE IF uri = VersionUri("w2", <<"V", "1">>)
        THEN <<DirEntry(<<"e">>), DirEntry(<<"g">>)>>
        ELSE <<DirEntry(<<"e">>)>>]

StatsKinds ==
    [n \in NameSet |->
        CASE n = <<"a">> -> "tracked0"
          [] n = <<"b">> -> "tracked3"
          [] n = <<"d">> -> "offline"
          [] n = <<"e">> -> "tracked3"
          [] n = <<"f">> -> "noUpstream"
          [] n = <<"g">> -> "tracked0"
          [] OTHER -> "plain"]

InitStats ==
    /\ InitProgram
    /\ maxConcurrent = MAX_CONCURRENT
    /\ workspaceFolders \in
           {Absent, <<<<>>>>, <<SubSeq(StatsRoots, 1, 1)>>, <<StatsRoots>>,
            <<Reverse(StatsRoots)>>}
    /\ srcEntries = StatsSrc
    /\ entries = StatsEntries
    /\ craftignore =
           [uri \in StatsUris |->
               IF uri \in {VersionUri("w1", <<"V", "4">>),
                           VersionUri("w2", <<"V", "1">>)}
               THEN FileOf(<<"e", "\n">>) ELSE NoFile]
    /\ repoKind = StatsKinds

NextStats ==
    \/ GetOverallStats
    \/ \E ok \in BOOLEAN : StatsSrcDone(ok)
    \/ StatsScanReturned
    \/ \E ok \in BOOLEAN : ReadFileDone("s1", ok)
    \/ \E ok \in BOOLEAN : ReadDirDone("s1", ok)
    \/ \E k \in 1..Len(scans["s1"].batch), cmd \in GitCmds :
          \E o \in GitOutcomes(repoKind[scans["s1"].batch[k].name], cmd) :
              ProcExit("s1", k, cmd, o)

SpecStats == InitStats /\ [][NextStats]_vars

(***************************************************************************)
(* addToIgnore, called up to MaxCalls times on an ignore file that is      *)
(* absent, lists b and c, or lists a, for the names b and d, for d         *)
(* followed by a space and for #d.                                         *)
(***************************************************************************)
AddNames == {<<"b">>, <<"d">>, <<"d", " ">>, <<"#", "d">>}

InitAdd ==
    /\ InitCommon
    /\ maxConcurrent = MAX_CONCURRENT
    /\ entries = [f \in Folders |-> DirListing(MaxDirs)]
    /\ craftignore \in [Folders -> IgnoreFiles \cup {FileOf(<<"a", "\n">>)}]
    /\ repoKind = [n \in NameSet |-> "plain"]

NextAdd ==
    \/ \E f \in Folders, repoName \in AddNames : AddToIgnore(f, repoName)
    \/ \E ok \in BOOLEAN : AddReadDone(ok)
    \/ \E ok \in BOOLEAN : AddAppendDone(ok)
    \/ \E ok \in BOOLEAN : AddCreateDone(ok)

SpecAdd == InitAdd /\ [][NextAdd]_vars

(***************************************************************************)
(* Two scans of the same directory at the same time: scanDirectory as s1   *)
(* and scanAndLogActiveRepos as s2, each called once, over one             *)
(* subdirectory, a repository 2 commits behind whose git fetch fails at    *)
(* times (the network, or the lock another fetch holds); time passes       *)
(* once both scans have looked the path up, while a check is awaited.      *)
(***************************************************************************)
InitRace ==
    /\ InitCommon
    /\ maxConcurrent = MAX_CONCURRENT
    /\ craftignore = [f \in Folders |-> NoFile]
    /\ entries = [f \in Folders |-> <<DirEntry(NameList[1])>>]
    /\ repoKind = [n \in NameSet |-> "flaky"]

NextRace ==
    \/ /\ scans["s1"].pc = "idle"
       /\ \E f \in Folders : StartScan("s1", "scanDirectory", f)
    \/ /\ scans["s2"].pc = "idle"
       /\ \E f \in Folders : StartScan("s2", "scanAndLogActiveRepos", f)
    \/ \E ok \in BOOLEAN : ReadFileDone("s2", ok)
    \/ \E s \in Scans : ReadDirDone(s, TRUE)
    \/ \E s \in Scans, cmd \in GitCmds :
          \E o \in GitOutcomes("any", cmd) : ProcExit(s, 1, cmd, o)
    \/ /\ \A s \in Scans : scans[s].pc \in {"batch", "done"}
       /\ \E s \in Scans : scans[s].pc = "batch"
       /\ Tick(1)

SpecRace == InitRace /\ [][NextRace]_vars

(***************************************************************************)
(* clearCache beside a scan: s1 scans a folder whose first directory is a  *)
(* tracked repository, the cache may be cleared at any moment, the checks  *)
(* of s1 in flight included, and s2 scans after s1 has returned.           *)
(***************************************************************************)
InitClear ==
    /\ InitCommon
    /\ maxConcurrent = MAX_CONCURRENT
    /\ craftignore = [f \in Folders |-> NoFile]
    /\ entries = [f \in Folders |-> DirListing(MaxDirs)]
    /\ repoKind = [n \in NameSet |->
                      IF n = NameList[1] THEN "tracked2" ELSE "plain"]

NextClear ==
    \/ /\ scans["s1"].pc = "idle"
       /\ \E f \in Folders : GetRepositoriesInFolder("s1", f)
    \/ /\ BetweenScans
       /\ \E f \in Folders : GetRepositoriesInFolder("s2", f)
    \/ \E s \in Scans : ReadDirDone(s, TRUE)
    \/ \E s \in Scans, k \in 1..MaxDirs, cmd \in GitCmds :
          \E o \in GitOutcomes(repoKind[NameList[k]], cmd) :
              ProcExit(s, k, cmd, o)
    \/ ClearCache
    \/ BetweenScans /\ Tick(1)

SpecClear == InitClear /\ [][NextClear]_vars

(***************************************************************************)
(* One scan of a wide directory, whose last subdirectory is a repository   *)
(* without upstream and the others no repositories, in which every         *)
(* operation awaited settles: the read of the ignore file, the listing and *)
(* every git process that runs end, with success or failure.               *)
(***************************************************************************)
InitSettle ==
    /\ InitCommon
    /\ maxConcurrent = MAX_CONCURRENT
    /\ craftignore = [f \in Folders |-> NoFile]
    /\ entries = [f \in Folders |-> DirListing(WideDirs)]
    /\ repoKind = [n \in NameSet |->
                      IF n = NameList[WideDirs] THEN "noUpstream" ELSE "plain"]

AProcExits ==
    \E k \in 1..MAX_CONCURRENT, cmd \in GitCmds :
        \E o \in GitOutcomes("any", cmd) : ProcExit("s1", k, cmd, o)

NextSettle ==
    \/ /\ scans["s1"].pc = "idle"
       /\ \E kind \in ScanKinds, f \in Folders : StartScan("s1", kind, f)
    \/ \E ok \in BOOLEAN : ReadFileDone("s1", ok)
    \/ \E ok \in BOOLEAN : ReadDirDone("s1", ok)
    \/ AProcExits

EverySettles ==
    /\ WF_vars(\E ok \in BOOLEAN : ReadFileDone("s1", ok))
    /\ WF_vars(\E ok \in BOOLEAN : ReadDirDone("s1", ok))
    /\ WF_vars(AProcExits)

SpecSettle == InitSettle /\ [][NextSettle]_vars /\ EverySettles

(***************************************************************************)
(* Properties of the scan.                                                 *)
(***************************************************************************)

\* Every check of a scan the state still knows: the members of the batch
\* in flight and the members behind the results collected so far.
ChecksOf(s) ==
    {scans[s].batch[k] : k \in DOMAIN scans[s].batch}
        \cup {scans[s].checks[j] : j \in DOMAIN scans[s].checks}

SettledChecks(s) == {m \in ChecksOf(s) : m.st \in {"settled", "hit"}}

\* The four shapes of a status.
IsNotAGitRepo(status) == status = NotAGitRepo
IsNoUpstream(status) == status = NoUpstream
IsError(status) ==
    /\ status.isGitRepo
    /\ status.commitsBehind = Num(0)
    /\ status.trackingInfo = Absent
    /\ status.error # Absent
    /\ Head(status.error) = "Error: "
IsTracked(status) ==
    /\ status.isGitRepo
    /\ status.error = Absent
    /\ status.commitsBehind # NaN
    /\ status.commitsBehind[1] >= 0
    /\ Len(status.trackingInfo) = 3
    /\ status.trackingInfo[2] = Arrow
ShapesOf(status) ==
    {n \in 1..4 : CASE n = 1 -> IsNotAGitRepo(status)
                    [] n = 2 -> IsNoUpstream(status)
                    [] n = 3 -> IsError(status)
                    [] n = 4 -> IsTracked(status)}

\* C6: the results of a scan are in the order of the subdirectories it
\* scans, which is the order of the directory listing: at every moment the
\* results collected are those of the first items, position by position,
\* each the outcome of the check of that very subdirectory, the items are
\* the listing's directories in the listing's order, and a scan that
\* finished has one result per item, whatever the order in which the
\* checks of a batch settled.
C6_ListingOrder ==
    \A s \in Scans :
        LET sc == scans[s]
            dirs == Directories(entries[sc.folder])
        IN  sc.listed /\ ~sc.raised =>
                /\ sc.items = IF sc.kind = "scanDirectory" THEN dirs
                              ELSE ActiveRepos(dirs, sc.ignoredRepos)
                /\ Len(sc.repositories) <= Len(sc.items)
                /\ Len(sc.checks) = Len(sc.repositories)
                /\ \A j \in 1..Len(sc.repositories) :
                       /\ sc.repositories[j].name = sc.items[j]
                       /\ sc.repositories[j].uri
                              = RepoPath(sc.folder, sc.items[j])
                       /\ sc.checks[j].name = sc.items[j]
                       /\ sc.repositories[j].status = sc.checks[j].status
                /\ sc.pc = "done" =>
                       Len(sc.repositories) = Len(sc.items)

C6_Witness ==
    \E s \in Scans :
        /\ scans[s].pc = "done"
        /\ scans[s].listed /\ ~scans[s].raised
        /\ scans[s].reordered
        /\ Len(scans[s].repositories) = MaxDirs

\* C8: checkRepository never raises, and whatever the git processes of a
\* check did, the status it returns has exactly one of the four shapes:
\* not a git repository, no upstream, error, tracked.
C8_NeverRaises ==
    \A s \in Scans :
        /\ ~scans[s].raised
        /\ \A m \in ChecksOf(s) : m.st # "raised"
        /\ \A m \in SettledChecks(s) : Cardinality(ShapesOf(m.status)) = 1
        /\ \A j \in 1..Len(scans[s].repositories) :
               Cardinality(ShapesOf(scans[s].repositories[j].status)) = 1

C8_Witness ==
    \E s \in Scans :
        /\ scans[s].pc = "done"
        /\ \E m \in SettledChecks(s) :
               /\ <<"fetch", "fail">> \in m.exits
               /\ IsError(m.status)

\* C9: a check whose quick check (git rev-parse --git-dir) failed returns
\* the status of a directory that is not a git repository, with no
\* tracking information and no error, and has started no other process.
C9_NotAGitRepo ==
    \A s \in Scans : \A m \in ChecksOf(s) :
        <<"gitDir", "fail">> \in m.exits =>
            /\ m.st = "settled"
            /\ m.status = Status(FALSE, Num(0), Absent, Absent)
            /\ m.started = {GitDirCmd}
            /\ m.exits = {<<"gitDir", "fail">>}

C9_Witness ==
    \E s \in Scans :
        /\ scans[s].pc = "done"
        /\ \E j \in 1..Len(scans[s].checks) :
               /\ <<"gitDir", "fail">> \in scans[s].checks[j].exits
               /\ scans[s].repositories[j].status = NotAGitRepo

\* C10: a check of a repository whose fetch succeeded and whose upstream
\* lookup (git rev-parse @{u}) failed returns the no-upstream status:
\* a git repository, 0 commits behind, no tracking information, the error
\* "No tracking branch configured", whatever the count step returned.
C10_NoUpstream ==
    \A s \in Scans : \A m \in SettledChecks(s) :
        <<"fetch", "ok">> \in m.exits /\ <<"upstream", "fail">> \in m.exits
            => m.status = Status(TRUE, Num(0), Absent,
                                 <<"No tracking branch configured">>)

C10_Witness ==
    \E s \in Scans : \E m \in SettledChecks(s) :
        /\ <<"fetch", "ok">> \in m.exits
        /\ <<"upstream", "fail">> \in m.exits
        /\ <<"branch", "ok">> \in m.exits
        /\ <<"revList", "ok">> \in m.exits
        /\ m.behindCount = Num(2)
        /\ m.status = NoUpstream

\* The checks of a scan that have not returned, and the git processes
\* they are waiting for.
ChecksInFlight(s) ==
    Cardinality({k \in DOMAIN scans[s].batch : Unsettled(scans[s].batch[k])})

\* What a check can be waiting for at once: the two processes of
\* getTrackingInfo and the one getCommitsBehind has running.
ProcsPerCheck == Cardinality({BranchCmd, UpstreamCmd, RevListCmd})

RECURSIVE ProcsOf(_)
ProcsOf(batch) ==
    IF batch = <<>> THEN 0
    ELSE Cardinality(Running(Head(batch))) + ProcsOf(Tail(batch))

ProcsInFlight(s) == ProcsOf(scans[s].batch)

\* C5 as stated: during a scan at most 10 git processes are in flight at
\* the same moment, however many subdirectories the directory has.
C5_AtMostTenProcesses ==
    \A s \in Scans : ProcsInFlight(s) <= MAX_CONCURRENT

\* C5 as amended: during a scan at most 10 checks are in flight at the same
\* moment, however many subdirectories the directory has, and a check in
\* flight waits for at most 3 git processes at once.
C5_AtMostTenChecks ==
    \A s \in Scans :
        /\ Len(scans[s].batch) <= MAX_CONCURRENT
        /\ ChecksInFlight(s) <= MAX_CONCURRENT
        /\ \A k \in DOMAIN scans[s].batch :
               Cardinality(Running(scans[s].batch[k])) <= ProcsPerCheck

C5_Witness ==
    \E s \in Scans :
        /\ Len(scans[s].items) > MAX_CONCURRENT
        /\ ChecksInFlight(s) = MAX_CONCURRENT

\* C7 as stated: for the same directory contents, cache state and git
\* answers the result of a scan does not depend on the batch width.  A
\* scan during which no directory changed its answers returns, under
\* every width, what a scan returns that has all its subdirectories in one
\* batch: every item looked up in the cache as the loop starts, the
\* missing ones checked.
C7_SameForEveryWidth ==
    \A s \in Scans :
        LET sc == scans[s]
        IN  sc.pc = "done" /\ sc.listed /\ ~sc.envChanged
                => sc.repositories = sc.expected

\* C7 as amended: the same, provided that no entry of the cache passes the
\* TTL and the cache is not cleared while the scan runs.
C7_SameWhileCacheStands ==
    \A s \in Scans :
        LET sc == scans[s]
        IN  (sc.pc = "done" /\ sc.listed
                /\ ~sc.envChanged /\ ~sc.cleared /\ ~sc.expired)
                => sc.repositories = sc.expected

C7_Witness ==
    \E s \in Scans :
        LET sc == scans[s]
        IN  /\ sc.pc = "done" /\ sc.listed
            /\ ~sc.envChanged /\ ~sc.cleared /\ ~sc.expired
            /\ maxConcurrent = 1
            /\ Len(sc.repositories) = MaxDirs
            /\ \E j \in 1..Len(sc.checks) : sc.checks[j].st = "hit"
            /\ \E j \in 1..Len(sc.checks) : sc.checks[j].st = "settled"
            /\ sc.repositories = sc.expected

\* The steps of a check in which everything succeeds.
AllSteps ==
    {<<step, "ok">> :
        step \in {"gitDir", "fetch", "branch", "upstream", "fetch2", "revList"}}

\* C11: a check of a repository with an upstream, N commits behind it,
\* in which the fetches and every query succeed (git rev-list prints N in
\* decimal), returns a git repository, N commits behind, with its tracking
\* information (branch and upstream) and no error.
C11_BehindCount ==
    \A s \in Scans : \A m \in SettledChecks(s) :
        m.exits = AllSteps =>
            \E n \in Behinds :
                /\ m.printed = <<Decimal(n) \o <<"\n">>>>
                /\ m.status = [isGitRepo |-> TRUE,
                               commitsBehind |-> <<n>>,
                               trackingInfo |-> <<<<"m", "a", "i", "n">>, Arrow,
                                                  <<"o", "/", "m">>>>,
                               error |-> Absent]

C11_Witness ==
    \E s \in Scans :
        /\ scans[s].pc = "done"
        /\ \E j \in 1..Len(scans[s].checks) :
               /\ scans[s].checks[j].exits = AllSteps
               /\ scans[s].repositories[j].status.commitsBehind = <<12>>

\* Every status a scan has returned or is about to return, and every
\* status the cache holds.
StatusesKnown ==
    {cache[p].status : p \in DOMAIN cache}
        \cup UNION {{m.status : m \in SettledChecks(s)} : s \in Scans}
        \cup UNION {{scans[s].repositories[j].status :
                        j \in DOMAIN scans[s].repositories} : s \in Scans}

WellFormed(status) ==
    /\ ~status.isGitRepo =>
           status.commitsBehind = <<0>> /\ status.trackingInfo = Absent
    /\ ~(status.error # Absent /\ status.trackingInfo # Absent)
    /\ status.commitsBehind # NaN
    /\ status.commitsBehind[1] \in Nat
    /\ status.error # Absent => status.commitsBehind = <<0>>

WithinTTL(first, second) ==
    \A j \in 1..Len(first.checks) :
        second.loopAt[1] - first.checks[j].at[1] <= CACHE_TTL

\* C13: every result of a scan is in the cache under the path of its
\* repository: a second scan of the same directory that starts after the
\* first has returned, within the TTL of the results and with the cache
\* not cleared meanwhile, returns the same statuses in the same order and
\* starts no git process.
C13_SecondScanFromCache ==
    LET first == scans["s1"]
        second == scans["s2"]
    IN  (/\ first.pc = "done" /\ first.listed
         /\ second.pc = "done" /\ second.listed
         /\ ~first.wiped
         /\ WithinTTL(first, second))
        => /\ second.repositories = first.repositories
           /\ \A j \in 1..Len(second.checks) :
                  /\ second.checks[j].st = "hit"
                  /\ second.checks[j].started = {}

C13_Witness ==
    LET first == scans["s1"]
        second == scans["s2"]
    IN  /\ first.pc = "done" /\ first.listed
        /\ second.pc = "done" /\ second.listed
        /\ ~first.wiped
        /\ WithinTTL(first, second)
        /\ second.loopAt[1] - first.checks[1].at[1] = CACHE_TTL
        /\ Len(second.repositories) = MaxDirs
        /\ \E j \in 1..MaxDirs : IsTracked(second.repositories[j].status)
        /\ \E j \in 1..MaxDirs : IsNotAGitRepo(second.repositories[j].status)

\* The names of the subdirectories of a folder.
SubdirNames(folder) ==
    {entries[folder][j].name :
        j \in {h \in DOMAIN entries[folder] :
                  entries[folder][h].type = "Directory"}}

\* The ignore set of a scan: the names the ignore file lists, none when
\* the file is absent or was not read.
IgnoreSet(sc) ==
    IF craftignore[sc.folder] # NoFile /\ sc.fileRead
    THEN IgnoreNames ELSE {}

\* C14: the ignore-aware scan returns exactly one Repository for each
\* subdirectory whose name is not in the ignore set and none for a name in
\* it; with the ignore file absent or unreadable every subdirectory is
\* active.
C14_ActiveRepos ==
    \A s \in Scans :
        LET sc == scans[s]
            active == SubdirNames(sc.folder) \ IgnoreSet(sc)
        IN  sc.kind = "scanAndLogActiveRepos" /\ sc.pc = "done" =>
                /\ {sc.repositories[j].name : j \in DOMAIN sc.repositories}
                       = active
                /\ Len(sc.repositories) = Cardinality(active)

C14_Witness ==
    \E s \in Scans :
        LET sc == scans[s]
        IN  /\ sc.kind = "scanAndLogActiveRepos" /\ sc.pc = "done"
            /\ sc.fileRead
            /\ SubdirNames(sc.folder) \cap IgnoreNames # {}
            /\ Len(sc.repositories) >= 1
            /\ Len(sc.repositories) < Cardinality(SubdirNames(sc.folder))

\* The ignore file of the folder exists and lists the name.
Ignored(folder, name) ==
    craftignore[folder] # NoFile /\ name \in IgnoreNames

\* C15: over any sequence of tree expansions and aggregations no git
\* process is started for a repository whose name is in the ignore file of
\* its version directory (stated for the scans that could read the file).
C15_IgnoredNeverChecked ==
    \A s \in Scans : \A m \in ChecksOf(s) :
        (/\ Ignored(scans[s].folder, m.name)
         /\ scans[s].kind = "scanAndLogActiveRepos" => scans[s].fileRead)
            => m.started = {}


\* The names an ignore file lists, none when it is absent or was not read.
ListedBy(file, wasRead) ==
    IF file = NoFile \/ ~wasRead THEN {}
    ELSE IF file = FileOf(IgnoreText) THEN IgnoreNames
    ELSE AllNames

\* C16: isVersionFullyIgnored(V) is true exactly when V has at least one
\* subdirectory and every subdirectory name is in V's ignore set; it is
\* false for a version directory without subdirectories and false when the
\* ignore file is absent.  For a V with subdirectories it is true exactly
\* when the ignore-aware scan of V, reading the ignore file with the same
\* outcome, returns the empty list.
C16_FullyIgnored ==
    fully.pc = "done" /\ fully.dirRead =>
        LET dirs == SubdirNames(fully.folder)
            file == craftignore[fully.folder]
            sc == scans["s1"]
        IN  /\ fully.result =
                   (/\ dirs # {}
                    /\ dirs \subseteq ListedBy(file, fully.fileRead))
            /\ dirs = {} => ~fully.result
            /\ file = NoFile => ~fully.result
            /\ (/\ dirs # {}
                /\ sc.pc = "done"
                /\ sc.folder = fully.folder
                /\ sc.fileRead = fully.fileRead)
               => (fully.result = (sc.repositories = <<>>))

\* A version directory whose only subdirectory is listed was found fully
\* ignored and its scan returned the empty list; one without
\* subdirectories was found not fully ignored.
C16_Witness ==
    /\ fully.pc = "done"
    /\ fully.result
    /\ SubdirNames(fully.folder) # {}
    /\ scans["s1"].pc = "done"
    /\ scans["s1"].repositories = <<>>


\* The names the ignore file of a version directory lists.
StatsIgnored(uri) ==
    IF uri \in {VersionUri("w1", <<"V", "4">>), VersionUri("w2", <<"V", "1">>)}
    THEN {<<"e">>} ELSE {}

\* The active repositories of the workspace: the subdirectories, not
\* listed in the ignore file, of the upper-case-named directories under
\* SRC of the workspace roots; an SRC or a version directory that could
\* not be listed has none, an ignore file that could not be read lists
\* nothing.
ActiveInWorkspace ==
    LET roots == IF workspaceFolders = Absent THEN {}
                 ELSE {workspaceFolders[1][j] :
                          j \in 1..Len(workspaceFolders[1])}
        versions(root) ==
            {e \in {srcEntries[root][j] : j \in 1..Len(srcEntries[root])} :
                e.type = "Directory" /\ e.name \in {<<"V", "1">>, <<"V", "4">>}}
        names(uri) ==
            IF uri \in stats.unlisted THEN {}
            ELSE SubdirNames(uri)
                   \ (IF uri \in stats.unread THEN {} ELSE StatsIgnored(uri))
    IN  UNION {UNION {{<<VersionUri(root, e.name), n>> :
                          n \in names(VersionUri(root, e.name))} :
                      e \in versions(root)} :
               root \in roots \ stats.srcFailed}

\* C17: getOverallStats returns totalRepos = the number of active
\* repositories, over all upper-case-named version directories under SRC
\* of all workspace roots, whose status has isGitRepo true and no error,
\* and reposBehind = the number of those with commitsBehind > 0; without
\* workspace folders both are 0.
C17_OverallStats ==
    stats.pc = "done" =>
        LET good == {x \in ActiveInWorkspace :
                        LET status == FreshStatus(repoKind[x[2]])
                        IN  status.isGitRepo /\ status.error = Absent}
            behind == {x \in good :
                          FreshStatus(repoKind[x[2]]).commitsBehind[1] > 0}
        IN  /\ stats.totalRepos = Cardinality(good)
            /\ stats.reposBehind = Cardinality(behind)
            /\ workspaceFolders = Absent =>
                   stats.totalRepos = 0 /\ stats.reposBehind = 0


\* C18: when the listing of the directory fails, the scan, scanDirectory
\* or scanAndLogActiveRepos, returns the empty list and does not raise.
C18_ListingFailureYieldsEmpty ==
    \A s \in Scans :
        LET sc == scans[s]
        IN  sc.pc \in {"done", "failed"} /\ ~sc.listed =>
                /\ sc.pc = "done"
                /\ sc.repositories = <<>>


\* The name appears, after trimming, as a line of the file: between two
\* neighbouring line breaks (or ends of the file) stands the name with
\* white space around it.
Appears(file, name) ==
    /\ file # NoFile
    /\ LET content == file[1]
           n == Len(content)
       IN  \E i \in 1..(n + 1), j \in 0..n :
              /\ i <= j + 1
              /\ i = 1 \/ content[i - 1] = "\n"
              /\ j = n \/ content[j + 1] = "\n"
              /\ \A h \in i..j : content[h] # "\n"
              /\ Trim(SubSeq(content, i, j)) = name

\* C19: addToIgnore for a repository whose name already appears, after
\* trimming, as a line of the ignore file leaves the file unchanged and
\* returns false; so does a call for the repository the call before it
\* added: calling twice yields the same file as calling once.
C19_AlreadyIgnoredNoOp ==
    (/\ adder.pc = "done"
     /\ \/ Appears(adder.before, adder.repoName)
        \/ adder.prevAdded = <<adder.repoName>>)
    => /\ craftignore[adder.folder] = adder.before
       /\ ~adder.result

\* C20: addToIgnore of a new name on an existing ignore file keeps the
\* content there is and appends, after a line break if the content does
\* not end with one, the name and one line break; the file becomes the
\* single name and a line break only when it was absent, never when it
\* existed, whether or not reading or writing it failed.
C20_AppendPreserves ==
    adder.pc = "done" =>
        LET file == craftignore[adder.folder]
            line == adder.repoName \o <<"\n">>
        IN  /\ (/\ adder.before # NoFile
                /\ ~Appears(adder.before, adder.repoName)
                /\ adder.result)
               => \E sep \in {<<>>, <<"\n">>} :
                     /\ file = FileOf(adder.before[1] \o sep \o line)
                     /\ (sep = <<>>) =
                            (/\ adder.before[1] # <<>>
                             /\ adder.before[1][Len(adder.before[1])] = "\n")
            /\ (file = FileOf(line) /\ file # adder.before)
               => adder.before = NoFile


\* The names of the members of a batch, in its order.
MemberNames(batch) == [k \in 1..Len(batch) |-> batch[k].name]

\* C21: within one scan the next batch does not begin until every check of
\* the batch before it has returned, with whatever status: while a batch
\* is awaited no other member is looked up or started, and when the loop
\* leaves a batch every member of it, and of the batches before it, has
\* returned and the members it starts are those of the next batch.
C21_BatchBarrier ==
    [][\A s \in Scans :
          LET a == scans[s]
              b == scans'[s]
          IN  a.pc = "batch" =>
                /\ (b.i = a.i) =>
                       /\ b.pc = "batch"
                       /\ MemberNames(b.batch) = MemberNames(a.batch)
                /\ (b.i # a.i) =>
                       /\ b.i = a.i + maxConcurrent
                       /\ Len(b.checks) = Len(a.checks) + Len(a.batch)
                       /\ \A j \in 1..Len(b.checks) :
                              b.checks[j].st \in {"hit", "settled"}
                       /\ \A k \in 1..Len(b.batch) :
                              /\ b.batch[k].name = b.items[b.i + k]
                              /\ ~Includes(MemberNames(a.batch),
                                           b.batch[k].name)]_vars

\* The second batch is awaited after a first batch of MAX_CONCURRENT
\* checks of which one ran to the end of a successful check.
C21_Witness ==
    \E s \in Scans :
        /\ scans[s].pc = "batch"
        /\ scans[s].i = MAX_CONCURRENT
        /\ Len(scans[s].checks) = MAX_CONCURRENT
        /\ \E k \in 1..Len(scans[s].batch) : Unsettled(scans[s].batch[k])
        /\ \E j \in 1..Len(scans[s].checks) :
               IsTracked(scans[s].checks[j].status)


\* C22: within one scan the subdirectories are cut into consecutive
\* batches of at most 10, only the last of which may be smaller: each
\* batch starts at a multiple of 10, the members of the batches so far are
\* the first subdirectories in their order, each in one batch only, at most
\* 10 checks are in flight, and a scan that returned has had every
\* subdirectory in a batch.
C22_ConsecutiveBatches ==
    \A s \in Scans :
        LET sc == scans[s]
            sofar == MemberNames(sc.checks) \o MemberNames(sc.batch)
        IN  sc.listed /\ ~sc.raised =>
                /\ sc.i % MAX_CONCURRENT = 0
                /\ Len(sc.batch) <= MAX_CONCURRENT
                /\ ChecksInFlight(s) <= MAX_CONCURRENT
                /\ Len(sofar) <= Len(sc.items)
                /\ sofar = SubSeq(sc.items, 1, Len(sofar))
                /\ \A j, k \in 1..Len(sofar) : sofar[j] = sofar[k] => j = k
                /\ sc.pc = "batch" =>
                       /\ Len(sc.checks) = sc.i
                       /\ Len(sc.batch) >= 1
                       /\ \/ Len(sc.batch) = MAX_CONCURRENT
                          \/ sc.i + Len(sc.batch) = Len(sc.items)
                /\ sc.pc = "done" => MemberNames(sc.checks) = sc.items

\* The last batch, smaller than 10, is awaited after a full one.
C22_Witness ==
    \E s \in Scans :
        /\ scans[s].pc = "batch"
        /\ scans[s].i = MAX_CONCURRENT
        /\ Len(scans[s].batch) = Len(scans[s].items) - MAX_CONCURRENT
        /\ Len(scans[s].batch) < MAX_CONCURRENT
        /\ ChecksInFlight(s) >= 1


\* C23: for a directory that passed the git-repository test, a failure of
\* a later step (the fetch, the branch query, the second fetch or the
\* count) yields a git repository, 0 commits behind, with an error that
\* starts with "Error: "; it is reported neither as tracked nor as "No
\* tracking branch configured".  (A failed upstream query may be a missing
\* upstream and is left out.)
C23_LaterFailureIsError ==
    \A s \in Scans : \A m \in SettledChecks(s) :
        (/\ <<"gitDir", "ok">> \in m.exits
         /\ \E step \in {"fetch", "branch", "fetch2", "revList"} :
                <<step, "fail">> \in m.exits
         /\ <<"upstream", "fail">> \notin m.exits)
        => /\ IsError(m.status)
           /\ ~IsTracked(m.status)
           /\ ~IsNoUpstream(m.status)


\* Both scans have returned, each has checked the one subdirectory (the
\* cache answered neither), and each looked the path up before the other
\* wrote its result.
BothMissed ==
    LET first == scans["s1"]
        second == scans["s2"]
    IN  /\ first.pc = "done" /\ first.listed /\ Len(first.checks) = 1
        /\ second.pc = "done" /\ second.listed /\ Len(second.checks) = 1
        /\ first.folder = second.folder
        /\ first.checks[1].st = "settled"
        /\ second.checks[1].st = "settled"
        /\ first.loopAt[1] <= second.checks[1].at[1]
        /\ second.loopAt[1] <= first.checks[1].at[1]

\* The git processes of the two checks ended alike and printed the same.
SameAnswers(m1, m2) ==
    /\ m1.exits = m2.exits
    /\ m1.printed = m2.printed
    /\ m1.branchOut = m2.branchOut
    /\ m1.upstreamOut = m2.upstreamOut

\* C24 as stated: when two scans run at the same time and both miss the
\* cache for the same path, both return the same status for the path and
\* the cache entry left for it is that status.
C24_SameStatus ==
    BothMissed =>
        LET first == scans["s1"]
            second == scans["s2"]
            repoPath == RepoPath(first.folder, first.items[1])
        IN  /\ first.repositories[1].status = second.repositories[1].status
            /\ repoPath \in DOMAIN cache
            /\ cache[repoPath].status = first.repositories[1].status

\* C24 as amended: both scans perform the check and both write; they
\* return the same status when the git processes answered the two checks
\* alike, and the cache entry left for the path is the result of the check
\* that returned last (of either, when both returned at the same time).
C24_LastWriteStands ==
    BothMissed =>
        LET first == scans["s1"]
            second == scans["s2"]
            m1 == first.checks[1]
            m2 == second.checks[1]
            r1 == first.repositories[1]
            r2 == second.repositories[1]
            repoPath == RepoPath(first.folder, first.items[1])
        IN  /\ GitDirCmd \in m1.started /\ GitDirCmd \in m2.started
            /\ r1.uri = repoPath /\ r2.uri = repoPath
            /\ SameAnswers(m1, m2) => r1.status = r2.status
            /\ repoPath \in DOMAIN cache
            /\ m1.at[1] < m2.at[1] =>
                   cache[repoPath] = CacheEntry(r2.status, m2.at[1])
            /\ m2.at[1] < m1.at[1] =>
                   cache[repoPath] = CacheEntry(r1.status, m1.at[1])
            /\ m1.at[1] = m2.at[1] =>
                   cache[repoPath] \in {CacheEntry(r1.status, m1.at[1]),
                                        CacheEntry(r2.status, m1.at[1])}

\* Both scans missed, the two checks returned at different times with
\* different statuses, one of them tracked.
C24_Witness ==
    /\ BothMissed
    /\ scans["s1"].checks[1].at # scans["s2"].checks[1].at
    /\ scans["s1"].repositories[1].status
           # scans["s2"].repositories[1].status
    /\ IsTracked(scans["s2"].repositories[1].status)


\* The active subdirectories of the version directories whose scan has
\* returned: those the ignore file of the directory does not list.
ActiveScanned ==
    UNION {{<<uri, n>> :
               n \in SubdirNames(uri)
                       \ (IF uri \in stats.unread THEN {}
                          ELSE StatsIgnored(uri))} :
           uri \in stats.scanned}

\* C25: in every result of getOverallStats, and while it is computed,
\* 0 <= reposBehind <= totalRepos, and totalRepos is at most the number
\* of active subdirectories of the version directories scanned.
C25_StatsBounds ==
    /\ 0 <= stats.reposBehind
    /\ stats.reposBehind <= stats.totalRepos
    /\ stats.totalRepos <= Cardinality(ActiveScanned)

\* A result over two version directories, one with an ignored repository:
\* some repositories are counted, fewer are behind, and not every active
\* subdirectory is counted.
C25_Witness ==
    /\ stats.pc = "done"
    /\ Cardinality(stats.scanned) >= 2
    /\ \E uri \in stats.scanned :
           uri \notin stats.unread /\ StatsIgnored(uri) # {}
    /\ 0 < stats.reposBehind
    /\ stats.reposBehind < stats.totalRepos
    /\ stats.totalRepos < Cardinality(ActiveScanned)


\* C26 as stated: once clearCache has returned, no lookup returns a status
\* that a check started before the clear produced.  s1's loop of one batch
\* was awaiting its checks when the cache was cleared (cleared), so what
\* the cache holds of s1 afterwards was written by a check in flight at
\* the clear; s2, called after s1 returned, must find none of it.
C26_ClearInvalidates ==
    LET first == scans["s1"]
        second == scans["s2"]
        looked == second.checks \o second.batch
    IN  (/\ first.pc = "done" /\ first.cleared
         /\ Len(first.items) <= MAX_CONCURRENT
         /\ second.pc \in {"batch", "done"}
         /\ second.folder = first.folder)
        => \A j \in 1..Len(looked) : looked[j].st # "hit"


\* C27: getOverallStats does not raise, and a version directory or an SRC
\* that cannot be listed costs only its own repositories: when the call
\* has returned, every upper-case-named directory under every SRC that
\* could be listed has been scanned, the ones that could not be listed
\* apart, and what the scans returned has been counted.
C27_FailureIsLocal ==
    stats.pc = "done" /\ workspaceFolders # Absent =>
        \A r \in 1..Len(workspaceFolders[1]) :
            LET root == workspaceFolders[1][r]
                versionDirs ==
                    NameOf(SelectSeq(srcEntries[root], IsVersionDir))
            IN  root \notin stats.srcFailed =>
                    \A v \in 1..Len(versionDirs) :
                        VersionUri(root, versionDirs[v])
                            \in stats.scanned \cup stats.unlisted


\* C28: when addToIgnore(R) has returned true, the ignore list a scan
\* reads from the ignore file of R's version directory includes R's name,
\* so that the active repositories of a listing that holds R do not: for
\* every directory name, one beginning with '#' or padded with white
\* space included.
C28_AddedIsIgnored ==
    adder.pc = "done" /\ adder.result =>
        /\ craftignore[adder.folder] # NoFile
        /\ LET ignoredRepos == IgnoredRepos(craftignore[adder.folder][1])
           IN  /\ Includes(ignoredRepos, adder.repoName)
               /\ ActiveRepos(<<adder.repoName>>, ignoredRepos) = <<>>


\* The scan has returned the list of a listing that succeeded: after
\* ceil(n/10) batches, one repository per subdirectory scanned, in their
\* order, each subdirectory looked up once and checked at most once.
ReturnedAll(sc) ==
    LET n == Len(sc.items)
    IN  /\ sc.pc = "done"
        /\ sc.i = MAX_CONCURRENT * ((n + MAX_CONCURRENT - 1) \div MAX_CONCURRENT)
        /\ Len(sc.repositories) = n
        /\ \A j \in 1..n : sc.repositories[j].name = sc.items[j]
        /\ MemberNames(sc.checks) = sc.items
        /\ \A j \in 1..n :
               /\ sc.checks[j].st \in {"hit", "settled"}
               /\ sc.checks[j].st = "hit" => sc.checks[j].started = {}
               /\ \A step \in {"gitDir", "fetch", "revList"} :
                      Cardinality({x \in sc.checks[j].exits :
                                      x[1] = step}) <= 1

=============================================================================
